---- MODULE Spec2Model ----
\* Lead-nurturing CRM: the query router and two-tool agent graph
\* (agents/langgraph_agent.py), lead shortlisting (crm/) and campaign
\* creation / customer follow-ups (campaigns/).
\*
\* Texts on which the code does character work (substring tests, lower(),
\* strip(), replace()) are sequences of one-character strings; opaque texts
\* (SQL, explanations, file names) are plain strings.
EXTENDS Integers, Sequences, FiniteSets, TLC

VARIABLES
    campaigns,      \* Campaign rows, id = index
    campaignLeads,  \* CampaignLead rows, id = index
    messages,       \* ConversationMessage rows in creation order
    now,            \* timezone.now(), a logical clock
    outbox,         \* the send_mail calls, with whether the call failed
    settings,       \* CAMPAIGN_EMAIL_OVERRIDE / SMTP credentials / DEBUG
    req,            \* the request being handled (position of the handler)
    http,           \* the last HTTP response
    saved,          \* database state at transaction begin (for rollback)
    agentPc,        \* position inside LeadNurtureAgent.app: idle/router/t2sql/rag/end/raised
    agentState,     \* AgentState of the running graph
    checkpoint,     \* MemorySaver: thread id -> last AgentState
    nodeLog,        \* nodes executed by the current run
    decideLog,      \* QueryRouter.decide calls of the current run
    t2sqlLog,       \* VannaTextToSQLService.answer calls of the current run
    ragLog,         \* ProjectRAGService.get_documents calls of the current run
    svc,            \* VannaTextToSQLService._last_sql/_last_rows/_last_message
    leadQueries,    \* lead querysets evaluated by the current shortlist request
    genLog,         \* PersonalizedMessageGenerator.generate calls of the current request
    brochures,      \* BrochureDocument rows, id = index
    ingestionLogs,  \* DocumentIngestionLog rows in creation order
    vectorStore,    \* the chunks held by the Chroma collections
    uploadLog,      \* store_upload / ingest calls of the current upload request
    calls,          \* the answer() calls running on the shared VannaTextToSQLService
    formatLog,      \* T2SQLAnswerFormatter.format calls: question, rows, returned text
    retrievalLog    \* the last ProjectRAGService.get_documents call on the vector store

vars == <<campaigns, campaignLeads, messages, now, outbox, settings, req, http,
          saved, agentPc, agentState, checkpoint, nodeLog, decideLog, t2sqlLog,
          ragLog, svc, leadQueries, genLog, brochures, ingestionLogs, vectorStore,
          uploadLog, calls, formatLog, retrievalLog>>

dbVars == <<campaigns, campaignLeads, messages>>
agentVars == <<agentPc, agentState, checkpoint, nodeLog, decideLog, t2sqlLog, ragLog, svc>>
docVars == <<brochures, ingestionLogs, vectorStore, uploadLog>>

-----------------------------------------------------------------------------
\* Bounds

MaxExecs == 2
MaxCampaigns == 2
MaxLeadIds == 2
MaxFollowups == 2
\* send_mail calls after which no further campaign is requested
MaxMails == 2
\* files of one upload request, and brochures after which no upload is requested
MaxFiles == 2
MaxBrochures == 1
\* rows of a result handed to the formatter, and format calls looked at
MaxRows == 6
MaxFormats == 2
\* answer() calls made one after the other on the shared service
MaxCalls == 2
\* the largest limit get_documents is called with, and the searches of one
\* call that find something
MaxLimit == 2
MaxHits == 2
\* ingest calls, those of the upload included, after which ingest is not
\* called again
MaxIngestions == 4
\* customer messages followed through the life of a campaign
MaxLifecycleFollowups == 3
\* campaign leads after which no further campaign is created
MaxLifecycleLeads == 2

-----------------------------------------------------------------------------
\* Python string helpers

NoneInt == -1
NoneText == <<"<None>">>
NoneStr == "<None>"

UpperCase == <<"A","B","C","D","E","F","G","H","I","J","K","L","M",
               "N","O","P","Q","R","S","T","U","V","W","X","Y","Z">>
LowerCase == <<"a","b","c","d","e","f","g","h","i","j","k","l","m",
               "n","o","p","q","r","s","t","u","v","w","x","y","z">>

\* str.lower()
Lower(s) ==
    [i \in 1..Len(s) |->
        IF \E k \in 1..26 : UpperCase[k] = s[i]
        THEN LowerCase[CHOOSE k \in 1..26 : UpperCase[k] = s[i]]
        ELSE s[i]]

Whitespace == {" ", "\n", "\t"}

\* str.strip()
Strip(s) ==
    LET idx == {i \in 1..Len(s) : s[i] \notin Whitespace}
        Min(S) == CHOOSE x \in S : \A y \in S : x <= y
        Max(S) == CHOOSE x \in S : \A y \in S : x >= y
    IN IF idx = {} THEN <<>> ELSE SubSeq(s, Min(idx), Max(idx))

\* str.rstrip()
RStrip(s) ==
    LET idx == {i \in 1..Len(s) : s[i] \notin Whitespace}
        Max(S) == CHOOSE x \in S : \A y \in S : x >= y
    IN IF idx = {} THEN <<>> ELSE SubSeq(s, 1, Max(idx))

\* `sub in s`
Contains(sub, s) ==
    \E i \in 1..(Len(s) - Len(sub) + 1) : SubSeq(s, i, i + Len(sub) - 1) = sub

\* any(keyword in text for keyword in keywords)
AnyIn(keywords, text) == \E k \in keywords : Contains(k, text)

\* str.replace("_", " ")
ReplaceUnderscore(s) == [i \in 1..Len(s) |-> IF s[i] = "_" THEN " " ELSE s[i]]

Digits == <<"0","1","2","3","4","5","6","7","8","9">>

RECURSIVE IntToStr(_)
\* str(n) for a non-negative integer
IntToStr(n) ==
    IF n < 10 THEN <<Digits[n + 1]>>
    ELSE IntToStr(n \div 10) \o <<Digits[(n % 10) + 1]>>

RECURSIVE Join(_, _)
\* sep.join(parts)
Join(sep, parts) ==
    IF Len(parts) = 0 THEN <<>>
    ELSE IF Len(parts) = 1 THEN parts[1]
    ELSE parts[1] \o sep \o Join(sep, Tail(parts))

-----------------------------------------------------------------------------
\* QueryRouter

\* "sql", "rag"
S_sql == <<"s","q","l">>
S_rag == <<"r","a","g">>

sql_keywords == {
    <<"c","o","u","n","t">>,
    <<"n","u","m","b","e","r">>,
    <<"t","o","t","a","l">>,
    <<"a","v","e","r","a","g","e">>,
    <<"a","v","g">>,
    <<"s","u","m">>,
    <<"r","a","t","i","o">>,
    <<"m","e","t","r","i","c","s">>,
    <<"h","o","w"," ","m","a","n","y">>,
    <<"m","a","x">>,
    <<"m","i","n">>,
    <<"b","u","d","g","e","t">>,
    <<"r","e","v","e","n","u","e">> }

\* What self.llm.invoke(prompt) can do: return an object whose content is a
\* string, return one whose content is not a string (a list of parts), or raise.
LLMText(t) == [kind |-> "text", content |-> t]
LLMNonString == [kind |-> "nonstr", content |-> <<>>]
LLMRaise == [kind |-> "raise", content |-> <<>>]

\* The keyword fallback of decide (after the try block)
RouterHeuristic(query) ==
    IF AnyIn(sql_keywords, Lower(query)) THEN "t2sql" ELSE "rag"

\* decide with the two substring tests in the other order
RouterDecide_RagFirst(query, llm) ==
    LET decision == Lower(Strip(llm.content))
    IN IF llm.kind = "text" /\ Contains(S_rag, decision) THEN "rag"
       ELSE IF llm.kind = "text" /\ Contains(S_sql, decision) THEN "t2sql"
       ELSE RouterHeuristic(query)

\* QueryRouter.decide: content.strip() on a non-string raises inside the try
\* block and is caught like a failed LLM call.
RouterDecide(query, llm) ==
    LET decision == Lower(Strip(llm.content))
    IN IF llm.kind = "text" /\ Contains(S_sql, decision) THEN "t2sql"
       ELSE IF llm.kind = "text" /\ Contains(S_rag, decision) THEN "rag"
       ELSE RouterHeuristic(query)

-----------------------------------------------------------------------------
\* VannaTextToSQLService

\* A value that is either a Python list of rows or not a list (None / other)
RowList(rows) == [isList |-> TRUE, rows |-> rows]
NotAList == [isList |-> FALSE, rows |-> <<>>]

K_lead_count == <<"l","e","a","d","_","c","o","u","n","t">>
K_id == <<"i","d">>
K_unit_type == <<"u","n","i","t","_","t","y","p","e">>

\* rows are sequences of rows; a row is a sequence of <<column, value>> pairs
OneCell == << << <<K_lead_count, 7>> >> >>
TwoRows == << << <<K_id, 1>>, <<K_unit_type, 2>> >>, << <<K_id, 12>>, <<K_unit_type, 3>> >> >>

\* What one RunSqlTool.execute can produce: the SQL it was given, the
\* "results" metadata, the rows of the UI component and the text for the LLM.
SqlRuns == {
    [sql |-> "SELECT COUNT(*) AS lead_count FROM crm_lead",
     meta |-> RowList(OneCell), ui |-> NotAList, message |-> "1 row"],
    [sql |-> "SELECT id, unit_type FROM crm_lead",
     meta |-> NotAList, ui |-> RowList(TwoRows), message |-> "2 rows"],
    [sql |-> "SELECT id FROM crm_lead WHERE 0",
     meta |-> RowList(<<>>), ui |-> NotAList, message |-> ""] }

SqlNotGenerated == "/* SQL not generated */"
ExplanationUnavailable == "Assistant response unavailable."

\* _reset_state
ResetState == [last_sql |-> NoneStr, last_rows |-> <<>>, last_message |-> ""]

\* _RecordingRunSqlTool.execute after super().execute returned `run`
RecordExecute(state, run) ==
    LET rows == IF (~run.meta.isList \/ run.meta.rows = <<>>) /\ run.ui # NotAList
                THEN run.ui ELSE run.meta
    IN [last_sql |-> run.sql,
        last_rows |-> IF rows.isList THEN rows.rows ELSE <<>>,
        last_message |-> run.message]

RECURSIVE RecordAll(_, _)
\* the tool executions of one send_message, in order
RecordAll(state, runs) ==
    IF runs = <<>> THEN state
    ELSE RecordAll(RecordExecute(state, Head(runs)), Tail(runs))

\* The behaviours of the Vanna agent during one answer(): the SQL runs it
\* makes, the text it streams, and whether send_message finally raises.
SeqsUpTo(S, n) == UNION {[1..k -> S] : k \in 0..n}
\* `first` is the attempt under asyncio.run when that attempt ended in a
\* RuntimeError (with the SQL it had run by then), after which answer() runs
\* _run_agent once more on a new event loop; runs, streamed and raises are
\* those of the attempt that ends the call.
NoAttempt == [failed |-> FALSE, runs |-> <<>>]
FirstAttempts == {NoAttempt} \cup {[failed |-> TRUE, runs |-> r] : r \in SeqsUpTo(SqlRuns, 1)}
AgentBehaviours ==
    [first : FirstAttempts, runs : SeqsUpTo(SqlRuns, MaxExecs),
     streamed : {"", "Counts the leads."}, raises : BOOLEAN]

\* answer() recording on top of what the service held from the call before
ServiceAfter_NoReset(b) ==
    LET st == RecordAll(RecordAll(svc, b.first.runs), b.runs)
    IN IF ~b.raises /\ st.last_sql = NoneStr
       THEN [st EXCEPT !.last_sql = SqlNotGenerated] ELSE st

\* service state after answer(question) under behaviour b
ServiceAfter(b) ==
    LET st == RecordAll(RecordAll(ResetState, b.first.runs), b.runs)
    IN IF ~b.raises /\ st.last_sql = NoneStr
       THEN [st EXCEPT !.last_sql = SqlNotGenerated] ELSE st

\* the TextToSQLResult _run_agent builds from the service fields st once the
\* stream has ended
RunAgentResult(st, streamed) ==
    [sql |-> st.last_sql,
     rows |-> st.last_rows,
     explanation |-> IF streamed # "" THEN streamed
                     ELSE IF st.last_message # "" THEN st.last_message
                     ELSE ExplanationUnavailable]

\* _run_agent's TextToSQLResult
TextToSQLResult(b) == RunAgentResult(ServiceAfter(b), b.streamed)

-----------------------------------------------------------------------------
\* T2SQLAnswerFormatter

\* "connected", "budget", "status"
W_connected == <<"c","o","n","n","e","c","t","e","d">>
W_budget == <<"b","u","d","g","e","t">>
W_status == <<"s","t","a","t","u","s">>

\* "I could not find results for '"  and  "'."
T_NoResults == <<"I"," ","c","o","u","l","d"," ","n","o","t"," ","f","i","n","d"," ",
                 "r","e","s","u","l","t","s"," ","f","o","r"," ","'">>
T_QuoteDot == <<"'",".">>
\* "The ", " is "
T_The == <<"T","h","e"," ">>
T_Is == <<" ","i","s"," ">>
\* "for connected leads", "for the requested budget", "for the requested status"
T_ForConnected == <<"f","o","r"," ","c","o","n","n","e","c","t","e","d"," ","l","e","a","d","s">>
T_ForBudget == <<"f","o","r"," ","t","h","e"," ","r","e","q","u","e","s","t","e","d"," ",
                 "b","u","d","g","e","t">>
T_ForStatus == <<"f","o","r"," ","t","h","e"," ","r","e","q","u","e","s","t","e","d"," ",
                 "s","t","a","t","u","s">>
\* " (bullet) ", ": ", ", ", newline
T_Bullet == <<" ","<U+2022>"," ">>
T_Colon == <<":"," ">>
T_Comma == <<","," ">>
T_NL == <<"\n">>
\* "\nShowing first 5 of ", " records."
T_Showing == <<"\n","S","h","o","w","i","n","g"," ","f","i","r","s","t"," ","5"," ","o","f"," ">>
T_Records == <<" ","r","e","c","o","r","d","s",".">>

\* the qualifiers list of the single-value branch
Qualifiers(question) ==
    LET q == Lower(question)
    IN (IF Contains(W_connected, q) THEN <<T_ForConnected>> ELSE <<>>)
       \o (IF Contains(W_budget, q) THEN <<T_ForBudget>> ELSE <<>>)
       \o (IF Contains(W_status, q) /\ ~Contains(W_connected, q) THEN <<T_ForStatus>> ELSE <<>>)

\* one bullet line of the table branch
FormatRow(row) ==
    T_Bullet \o Join(T_Comma,
        [i \in 1..Len(row) |-> ReplaceUnderscore(row[i][1]) \o T_Colon \o IntToStr(row[i][2])])

\* format announcing the cut as soon as there are five rows
Format_CutAtFive(question, rows) ==
    IF rows = <<>> THEN T_NoResults \o question \o T_QuoteDot
    ELSE IF Len(rows) = 1 /\ Len(rows[1]) = 1 THEN
        LET message == T_The \o ReplaceUnderscore(rows[1][1][1]) \o T_Is \o IntToStr(rows[1][1][2])
            quals == Qualifiers(question)
            full == IF quals # <<>> THEN message \o <<" ">> \o Join(<<" ">>, quals) ELSE message
        IN RStrip(full) \o <<".">>
    ELSE
        LET shown == SubSeq(rows, 1, IF Len(rows) < 5 THEN Len(rows) ELSE 5)
            summary == Join(T_NL, [i \in 1..Len(shown) |-> FormatRow(shown[i])])
        IN IF Len(rows) >= 5
           THEN summary \o T_Showing \o IntToStr(Len(rows)) \o T_Records
           ELSE summary

\* T2SQLAnswerFormatter.format(question, result) with result.rows = rows
Format(question, rows) ==
    IF rows = <<>> THEN T_NoResults \o question \o T_QuoteDot
    ELSE IF Len(rows) = 1 /\ Len(rows[1]) = 1 THEN
        LET message == T_The \o ReplaceUnderscore(rows[1][1][1]) \o T_Is \o IntToStr(rows[1][1][2])
            quals == Qualifiers(question)
            full == IF quals # <<>> THEN message \o <<" ">> \o Join(<<" ">>, quals) ELSE message
        IN RStrip(full) \o <<".">>
    ELSE
        LET shown == SubSeq(rows, 1, IF Len(rows) < 5 THEN Len(rows) ELSE 5)
            summary == Join(T_NL, [i \in 1..Len(shown) |-> FormatRow(shown[i])])
        IN IF Len(rows) > 5
           THEN summary \o T_Showing \o IntToStr(Len(rows)) \o T_Records
           ELSE summary

-----------------------------------------------------------------------------
\* Leads (crm.models.Lead). The application never creates or edits leads;
\* the table is the data the sales team loaded.

Users == {"alice", "bob"}

LeadTable == <<
    [id |-> 1, first_name |-> "Jamie", email |-> "jamie@leads.example", project_enquired |-> "Altura", unit_type |-> "2 bed", status |-> "connected",
     budget_min |-> 5, budget_max |-> 8, last_conversation_date |-> 3],
    [id |-> 2, first_name |-> "Taylor", email |-> "taylor@leads.example", project_enquired |-> "Altura", unit_type |-> "studio", status |-> "not_interested",
     budget_min |-> NoneInt, budget_max |-> NoneInt, last_conversation_date |-> NoneInt],
    [id |-> 3, first_name |-> "Chris", email |-> "chris@leads.example", project_enquired |-> "DLF West Park", unit_type |-> "2 bed", status |-> "connected",
     budget_min |-> 2, budget_max |-> 4, last_conversation_date |-> 1],
    [id |-> 4, first_name |-> "Jordan", email |-> "jordan@leads.example", project_enquired |-> "Altura", unit_type |-> "2 bed", status |-> "connected",
     budget_min |-> 9, budget_max |-> NoneInt, last_conversation_date |-> 2] >>

LeadIds == {LeadTable[i].id : i \in 1..Len(LeadTable)}
LeadById(id) == LeadTable[CHOOSE i \in 1..Len(LeadTable) : LeadTable[i].id = id]

-----------------------------------------------------------------------------
\* DocumentAnswerTool

\* langchain Documents as the RAG service returns them; "source" metadata may be absent
Doc(content, hasSource, source) == [page_content |-> content, hasSource |-> hasSource, source |-> source]
DocLists == {
    <<>>,
    << Doc("Infinity pool and skyline views.", FALSE, "") >>,
    << Doc("Gym", TRUE, "altura.pdf"), Doc("Pool", TRUE, "amenities.pdf") >>,
    << Doc("Pool", TRUE, "amenities.pdf"), Doc("Lobby", FALSE, ""), Doc("Gym", TRUE, "altura.pdf") >> }

\* doc.metadata.get("source", "")
SourceOf(doc) == IF doc.hasSource THEN doc.source ELSE ""

\* " Pool view. \n", " \n", "Gym"
AnswerTexts == {
    <<" ","P","o","o","l"," ","v","i","e","w","."," ","\n">>,
    <<" ","\n">>,
    <<"G","y","m">> }
AnswerLLMOutcomes == {LLMText(t) : t \in AnswerTexts} \cup {LLMNonString, LLMRaise}

\* The behaviours of the collaborators during one DocumentAnswerTool.answer
RagBehaviours == [docs : DocLists, retrievalRaises : BOOLEAN, llm : AnswerLLMOutcomes]

\* DocumentAnswerTool.answer raises when retrieval or the LLM raises, or when
\* the LLM content has no strip()
RagRaises(b) == b.retrievalRaises \/ b.llm.kind # "text"

\* DocumentAnswerTool.answer without the strip() of the LLM output
DocumentAnswer_NoStrip(b) ==
    [answer |-> b.llm.content,
     sources |-> [i \in 1..Len(b.docs) |-> SourceOf(b.docs[i])],
     route |-> "rag"]

\* DocumentAnswer(answer, sources, route) of DocumentAnswerTool.answer
DocumentAnswer(b) ==
    [answer |-> Strip(b.llm.content),
     sources |-> [i \in 1..Len(b.docs) |-> SourceOf(b.docs[i])],
     route |-> "rag"]

-----------------------------------------------------------------------------
\* LeadNurtureAgent

NoResponse ==
    [keys |-> {}, route |-> NoneStr, sql |-> NoneStr, rows |-> <<>>, explanation |-> NoneStr,
     message |-> NoneText, answer |-> NoneText, sources |-> <<>>]

\* _answer_sql reporting the SQL text where the explanation belongs
SqlResponse_SqlAsExplanation(result, message) ==
    [keys |-> {"route", "sql", "rows", "explanation", "message"},
     route |-> "t2sql", sql |-> result.sql, rows |-> result.rows,
     explanation |-> result.sql, message |-> message,
     answer |-> NoneText, sources |-> <<>>]

\* the response dict built by _answer_sql
SqlResponse(result, message) ==
    [keys |-> {"route", "sql", "rows", "explanation", "message"},
     route |-> "t2sql", sql |-> result.sql, rows |-> result.rows,
     explanation |-> result.explanation, message |-> message,
     answer |-> NoneText, sources |-> <<>>]

\* the response dict built by _answer_rag
RagResponse(answer) ==
    [keys |-> {"route", "answer", "sources"},
     route |-> "rag", sql |-> NoneStr, rows |-> <<>>, explanation |-> NoneStr,
     message |-> NoneText, answer |-> answer.answer, sources |-> answer.sources]

\* dict.get(key) for the text-valued keys; None when the key is absent
GetText(resp, key) == IF key \in resp.keys THEN resp[key] ELSE NoneText
\* Python truthiness of an optional text
Truthy(t) == t # NoneText /\ t # <<>>

BlankState ==
    [query |-> NoneText, lead_id |-> NoneInt, campaign_id |-> NoneInt,
     route |-> "unset", response |-> NoResponse]

MaxCampaignLeads == MaxCampaigns * MaxLeadIds
ThreadIds == 1..MaxCampaignLeads

\* _build_thread_id / f"campaign-lead-{campaign_lead.id}": one thread per CampaignLead
ThreadOf(clId) == clId

\* LeadNurtureAgent.run up to app.invoke: the graph starts at the entry point
\* on the thread's checkpointed state overwritten with the input keys
StartRun(query, clId) ==
    /\ agentPc' = "router"
    /\ agentState' = [checkpoint[ThreadOf(clId)] EXCEPT
                        !.query = query,
                        !.lead_id = campaignLeads[clId].lead,
                        !.campaign_id = campaignLeads[clId].campaign]
    /\ nodeLog' = <<>>
    /\ decideLog' = <<>>
    /\ t2sqlLog' = <<>>
    /\ ragLog' = <<>>
    /\ UNCHANGED <<checkpoint, svc>>

\* "T2SQL", "RAG or SQL", " Storage\n", "unsure", ""
RouterReplies == {
    <<"T","2","S","Q","L">>,
    <<"R","A","G"," ","o","r"," ","S","Q","L">>,
    <<" ","S","t","o","r","a","g","e","\n">>,
    <<"u","n","s","u","r","e">>,
    <<>> }
RouterLLMOutcomes == {LLMText(t) : t \in RouterReplies} \cup {LLMNonString, LLMRaise}

\* the conditional edge after "router": _next_step through the edge map
\* {"t2sql": "t2sql", "rag": "rag"}, with the two targets exchanged
NextStep_Swapped(state) == IF state.route = "t2sql" THEN "rag" ELSE "t2sql"

\* the conditional edge after "router": _next_step through the edge map
\* {"t2sql": "t2sql", "rag": "rag"}
NextStep(state) == state.route

\* The collaborators' behaviours explored while a customer follow-up is
\* answered: the router's LLM names a route or fails, the Vanna agent runs one
\* query, none, or raises, and the document tool answers, answers with blank
\* text, or raises.
FollowupRouterOutcomes ==
    {LLMText(<<"T","2","S","Q","L">>), LLMText(<<" ","S","t","o","r","a","g","e","\n">>), LLMRaise}
FollowupSqlBehaviours ==
    {b \in AgentBehaviours :
        /\ ~b.first.failed
        /\ b.streamed = ""
        /\ \/ b.runs = <<>>
           \/ /\ Len(b.runs) = 1
              /\ ~b.raises
              /\ b.runs[1].sql = "SELECT COUNT(*) AS lead_count FROM crm_lead"}
FollowupRagBehaviours ==
    {b \in RagBehaviours :
        /\ Len(b.docs) = 2
        /\ ~b.retrievalRaises
        /\ b.llm \in {LLMText(<<"G","y","m">>), LLMText(<<" ","\n">>), LLMRaise}}

RouterOutcomesFor(kind) == IF kind = "agent_respond" THEN FollowupRouterOutcomes ELSE RouterLLMOutcomes
SqlBehavioursFor(kind) == IF kind = "agent_respond" THEN FollowupSqlBehaviours ELSE AgentBehaviours
RagBehavioursFor(kind) == IF kind = "agent_respond" THEN FollowupRagBehaviours ELSE RagBehaviours

\* a node's {"response": ...} update kept out of a state that holds a response
WriteResponse_KeepCheckpointed(state, response) ==
    IF state.response.keys = {} THEN [state EXCEPT !.response = response] ELSE state

\* the state after an answer node returned {"response": response}
WriteResponse(state, response) == [state EXCEPT !.response = response]

\* node "router" (_route) and the conditional edge (_next_step)
RouteNodeOn(outcomes) ==
    /\ agentPc = "router"
    /\ \E llm \in outcomes :
        LET route == RouterDecide(agentState.query, llm)
            st == [agentState EXCEPT !.route = route]
        IN /\ agentState' = st
           /\ checkpoint' = [checkpoint EXCEPT ![ThreadOf(req.cl)] = st]
           /\ decideLog' = Append(decideLog, [query |-> agentState.query, llm |-> llm, result |-> route])
           /\ nodeLog' = Append(nodeLog, "router")
           /\ agentPc' = NextStep(st)
    /\ UNCHANGED <<t2sqlLog, ragLog, svc>>
    /\ UNCHANGED <<dbVars, now, outbox, settings, req, http, saved, leadQueries, genLog>>
    /\ UNCHANGED <<docVars, calls, formatLog, retrievalLog>>

RouteNode == RouteNodeOn(RouterOutcomesFor(req.kind))

\* node "t2sql" (_answer_sql) and the edge to END
AnswerSqlNodeOn(behaviours) ==
    /\ agentPc = "t2sql"
    /\ \E b \in behaviours :
        /\ svc' = ServiceAfter(b)
        /\ nodeLog' = Append(nodeLog, "t2sql")
        /\ IF b.raises
           THEN /\ t2sqlLog' = Append(t2sqlLog, [question |-> agentState.query, returned |-> FALSE,
                                                 result |-> TextToSQLResult(b)])
                /\ agentPc' = "raised"
                /\ UNCHANGED <<agentState, checkpoint>>
           ELSE LET result == TextToSQLResult(b)
                    message == Format(agentState.query, result.rows)
                    st == WriteResponse(agentState, SqlResponse(result, message))
                IN /\ t2sqlLog' = Append(t2sqlLog, [question |-> agentState.query, returned |-> TRUE,
                                                    result |-> result])
                   /\ agentState' = st
                   /\ checkpoint' = [checkpoint EXCEPT ![ThreadOf(req.cl)] = st]
                   /\ agentPc' = "end"
    /\ UNCHANGED <<decideLog, ragLog>>
    /\ UNCHANGED <<dbVars, now, outbox, settings, req, http, saved, leadQueries, genLog>>
    /\ UNCHANGED <<docVars, calls, formatLog, retrievalLog>>

AnswerSqlNode == AnswerSqlNodeOn(SqlBehavioursFor(req.kind))

\* node "rag" (_answer_rag) and the edge to END
AnswerRagNodeOn(behaviours) ==
    /\ agentPc = "rag"
    /\ nodeLog' = Append(nodeLog, "rag")
    /\ IF agentState.lead_id = NoneInt \/ agentState.campaign_id = NoneInt
       THEN /\ agentPc' = "raised"
            /\ UNCHANGED <<agentState, checkpoint, ragLog>>
       ELSE \E b \in behaviours :
            /\ ragLog' = Append(ragLog, [project_name |-> campaigns[agentState.campaign_id].project_name,
                                         query |-> agentState.query, docs |-> b.docs, llm |-> b.llm])
            /\ IF RagRaises(b)
               THEN /\ agentPc' = "raised"
                    /\ UNCHANGED <<agentState, checkpoint>>
               ELSE LET st == WriteResponse(agentState, RagResponse(DocumentAnswer(b)))
                    IN /\ agentState' = st
                       /\ checkpoint' = [checkpoint EXCEPT ![ThreadOf(req.cl)] = st]
                       /\ agentPc' = "end"
    /\ UNCHANGED <<decideLog, t2sqlLog, svc>>
    /\ UNCHANGED <<dbVars, now, outbox, settings, req, http, saved, leadQueries, genLog>>
    /\ UNCHANGED <<docVars, calls, formatLog, retrievalLog>>

AnswerRagNode == AnswerRagNodeOn(RagBehavioursFor(req.kind))

-----------------------------------------------------------------------------
\* Requests

NoReq == [kind |-> "none", user |-> NoneStr, cl |-> NoneInt, text |-> NoneText,
          goal |-> NoneStr, schedule |-> NoneInt]
NoHttp == [endpoint |-> "none", user |-> NoneStr, status |-> 0, detail |-> NoneStr,
           body |-> <<>>, request |-> <<>>]
NoSaved == [campaigns |-> <<>>, campaignLeads |-> <<>>, messages |-> <<>>]

\* "How many leads?", "Amenities?", "SUMMARY", "status Budget"
Queries == {
    <<"H","o","w"," ","m","a","n","y"," ","l","e","a","d","s","?">>,
    <<"A","m","e","n","i","t","i","e","s","?">>,
    <<"S","U","M","M","A","R","Y">>,
    <<"s","t","a","t","u","s"," ","B","u","d","g","e","t">> }

\* get_object_or_404(CampaignLead, pk=..., campaign__created_by=request.user)
OwnedCampaignLead(user, clId) ==
    /\ clId \in 1..Len(campaignLeads)
    /\ campaigns[campaignLeads[clId].campaign].created_by = user

\* POST /query (agent_query) up to the call of agent.run
AgentQueryBeginOn(queries) ==
    /\ req.kind = "none"
    /\ \E user \in Users, clId \in ThreadIds, query \in queries :
        IF OwnedCampaignLead(user, clId)
        THEN /\ req' = [NoReq EXCEPT !.kind = "agent_query", !.user = user, !.cl = clId, !.text = query]
             /\ StartRun(query, clId)
             /\ http' = NoHttp
        ELSE /\ http' = [NoHttp EXCEPT !.endpoint = "agent_query", !.status = 404, !.detail = "Not Found"]
             /\ UNCHANGED <<req, agentVars>>
    /\ UNCHANGED <<dbVars, now, outbox, settings, saved, leadQueries, genLog>>
    /\ UNCHANGED <<docVars, calls, formatLog, retrievalLog>>

AgentQueryBegin == AgentQueryBeginOn(Queries)

\* reply taken from the "message" key alone
QueryReply_MessageOnly(result) == GetText(result, "message")

\* result.get("message") or result.get("answer")
QueryReply(result) ==
    IF Truthy(GetText(result, "message")) THEN GetText(result, "message")
    ELSE GetText(result, "answer")

\* agent_query after agent.run returned or raised
AgentQueryEnd ==
    /\ req.kind = "agent_query"
    /\ agentPc \in {"end", "raised"}
    /\ LET result == agentState.response
           reply == QueryReply(result)
       IN http' =
            IF agentPc = "raised"
            THEN [NoHttp EXCEPT !.endpoint = "agent_query", !.user = req.user, !.status = 500,
                                !.detail = "Internal Server Error",
                                !.request = [cl |-> req.cl]]
            ELSE IF ~Truthy(reply)
            THEN [NoHttp EXCEPT !.endpoint = "agent_query", !.user = req.user, !.status = 500,
                                !.detail = "Unable to generate agent response.",
                                !.request = [cl |-> req.cl]]
            ELSE [NoHttp EXCEPT !.endpoint = "agent_query", !.user = req.user, !.status = 200,
                    !.request = [cl |-> req.cl],
                    !.body = [route |-> IF "route" \in result.keys THEN result.route ELSE "rag",
                              reply |-> reply,
                              sql |-> result.sql,
                              rows |-> result.rows,
                              sources |-> result.sources]]
    /\ req' = NoReq
    /\ agentPc' = "idle"
    /\ UNCHANGED <<agentState, checkpoint, nodeLog, decideLog, t2sqlLog, ragLog, svc>>
    /\ UNCHANGED <<dbVars, now, outbox, settings, saved, leadQueries, genLog>>
    /\ UNCHANGED <<docVars, calls, formatLog, retrievalLog>>

-----------------------------------------------------------------------------
\* Lead shortlisting (crm)

\* an Optional[List[...]] field: None, or a list (of which only membership matters)
NoList == [isNone |-> TRUE, items |-> {}]
ListOf(items) == [isNone |-> FALSE, items |-> items]

\* the LeadFilterRequest payloads sent to the endpoint
FilterRequests ==
    [project_names : {NoList, ListOf({}), ListOf({"Altura"}), ListOf({"Altura", "DLF West Park"})},
     budget_min : {NoneInt, 0, 5},
     budget_max : {NoneInt, 4},
     unit_types : {NoList, ListOf({}), ListOf({"2 bed"})},
     lead_status : {NoneStr, "connected"},
     last_conversation_from : {NoneInt, 2},
     last_conversation_to : {NoneInt, 2}]

\* bool(list): None and [] are both false
NonEmptyList(l) == ~l.isNone /\ l.items # {}

\* active_filters counting a list field as soon as it is not None
active_filters_CountsEmptyLists(criteria) ==
    (IF ~criteria.project_names.isNone THEN 1 ELSE 0)
    + (IF criteria.budget_min # NoneInt THEN 1 ELSE 0)
    + (IF criteria.budget_max # NoneInt THEN 1 ELSE 0)
    + (IF ~criteria.unit_types.isNone THEN 1 ELSE 0)
    + (IF criteria.lead_status # NoneStr THEN 1 ELSE 0)
    + (IF criteria.last_conversation_from # NoneInt THEN 1 ELSE 0)
    + (IF criteria.last_conversation_to # NoneInt THEN 1 ELSE 0)

\* LeadFilterRequest.active_filters
active_filters(criteria) ==
    (IF NonEmptyList(criteria.project_names) THEN 1 ELSE 0)
    + (IF criteria.budget_min # NoneInt THEN 1 ELSE 0)
    + (IF criteria.budget_max # NoneInt THEN 1 ELSE 0)
    + (IF NonEmptyList(criteria.unit_types) THEN 1 ELSE 0)
    + (IF criteria.lead_status # NoneStr THEN 1 ELSE 0)
    + (IF criteria.last_conversation_from # NoneInt THEN 1 ELSE 0)
    + (IF criteria.last_conversation_to # NoneInt THEN 1 ELSE 0)

minimum_filters == 2

\* the budget Q object: both lead budgets NULL, or the lead's range overlaps
\* [min_value, max_value]; a comparison with a NULL column is not true and
\* float("inf") is above every budget
BudgetQ(lead, budget_min, budget_max) ==
    LET min_value == IF budget_min # NoneInt THEN budget_min ELSE 0
    IN \/ lead.budget_min = NoneInt /\ lead.budget_max = NoneInt
       \/ /\ lead.budget_min # NoneInt
          /\ budget_max = NoneInt \/ lead.budget_min <= budget_max
          /\ lead.budget_max # NoneInt
          /\ lead.budget_max >= min_value

\* a budget Q object whose upper comparison is strict
BudgetQ_Strict(lead, budget_min, budget_max) ==
    LET min_value == IF budget_min # NoneInt THEN budget_min ELSE 0
    IN \/ lead.budget_min = NoneInt /\ lead.budget_max = NoneInt
       \/ /\ lead.budget_min # NoneInt
          /\ budget_max = NoneInt \/ lead.budget_min < budget_max
          /\ lead.budget_max # NoneInt
          /\ lead.budget_max > min_value

\* LeadQuerySet.shortlist with the last-conversation upper bound exclusive
LeadQuerySetShortlist_ExclusiveTo(queryset, c) ==
    LET q1 == IF NonEmptyList(c.project_names)
              THEN SelectSeq(queryset, LAMBDA l : l.project_enquired \in c.project_names.items)
              ELSE queryset
        q2 == IF NonEmptyList(c.unit_types)
              THEN SelectSeq(q1, LAMBDA l : l.unit_type \in c.unit_types.items)
              ELSE q1
        q3 == IF c.lead_status # NoneStr
              THEN SelectSeq(q2, LAMBDA l : l.status = c.lead_status)
              ELSE q2
        q4 == IF c.last_conversation_from # NoneInt
              THEN SelectSeq(q3, LAMBDA l : l.last_conversation_date # NoneInt
                                            /\ l.last_conversation_date >= c.last_conversation_from)
              ELSE q3
        q5 == IF c.last_conversation_to # NoneInt
              THEN SelectSeq(q4, LAMBDA l : l.last_conversation_date # NoneInt
                                            /\ l.last_conversation_date < c.last_conversation_to)
              ELSE q4
    IN IF c.budget_min # NoneInt \/ c.budget_max # NoneInt
       THEN SelectSeq(q5, LAMBDA l : BudgetQ(l, c.budget_min, c.budget_max))
       ELSE q5

\* LeadQuerySet.shortlist: each supplied filter narrows the queryset
LeadQuerySetShortlist(queryset, c) ==
    LET q1 == IF NonEmptyList(c.project_names)
              THEN SelectSeq(queryset, LAMBDA l : l.project_enquired \in c.project_names.items)
              ELSE queryset
        q2 == IF NonEmptyList(c.unit_types)
              THEN SelectSeq(q1, LAMBDA l : l.unit_type \in c.unit_types.items)
              ELSE q1
        q3 == IF c.lead_status # NoneStr
              THEN SelectSeq(q2, LAMBDA l : l.status = c.lead_status)
              ELSE q2
        q4 == IF c.last_conversation_from # NoneInt
              THEN SelectSeq(q3, LAMBDA l : l.last_conversation_date # NoneInt
                                            /\ l.last_conversation_date >= c.last_conversation_from)
              ELSE q3
        q5 == IF c.last_conversation_to # NoneInt
              THEN SelectSeq(q4, LAMBDA l : l.last_conversation_date # NoneInt
                                            /\ l.last_conversation_date <= c.last_conversation_to)
              ELSE q4
    IN IF c.budget_min # NoneInt \/ c.budget_max # NoneInt
       THEN SelectSeq(q5, LAMBDA l : BudgetQ(l, c.budget_min, c.budget_max))
       ELSE q5

\* "Please select at least ", " filter fields before shortlisting leads."
T_PleaseSelect == <<"P","l","e","a","s","e"," ","s","e","l","e","c","t"," ","a","t"," ",
                    "l","e","a","s","t"," ">>
T_FilterFields == <<" ","f","i","l","t","e","r"," ","f","i","e","l","d","s"," ","b","e","f","o","r","e"," ",
                    "s","h","o","r","t","l","i","s","t","i","n","g"," ","l","e","a","d","s",".">>

\* the ValidationError message of LeadShortlistService.shortlist
ShortlistError == T_PleaseSelect \o IntToStr(minimum_filters) \o T_FilterFields

\* str(exc) of a django ValidationError built from one message: the repr of
\* the list of its messages, "['<message>']"
StrValidationError(message) == <<"[", "'">> \o message \o <<"'", "]">>

\* result.leads.select_related("user")[:200]
PageLimit == 200
FirstPage(queryset) == SubSeq(queryset, 1, IF Len(queryset) < PageLimit THEN Len(queryset) ELSE PageLimit)

\* POST /shortlist (shortlist_leads with LeadShortlistService.shortlist)
ShortlistLeads ==
    /\ req.kind = "none"
    /\ \E payload \in FilterRequests :
        IF active_filters(payload) < minimum_filters
        THEN /\ http' = [NoHttp EXCEPT !.endpoint = "shortlist", !.status = 400,
                                       !.detail = StrValidationError(ShortlistError),
                                       !.request = payload]
             /\ leadQueries' = 0
        ELSE LET queryset == LeadQuerySetShortlist(LeadTable, payload)
                 leads == FirstPage(queryset)
             IN /\ http' = [NoHttp EXCEPT !.endpoint = "shortlist", !.status = 200,
                                          !.body = [count |-> Len(queryset),
                                                    leads |-> [i \in 1..Len(leads) |-> leads[i].id]],
                                          !.request = payload]
                /\ leadQueries' = 2
    /\ UNCHANGED <<dbVars, now, outbox, settings, req, saved, agentVars, genLog>>
    /\ UNCHANGED <<docVars, calls, formatLog, retrievalLog>>

-----------------------------------------------------------------------------
\* Campaign creation (campaigns.services.CampaignService)

\* a transaction.atomic that keeps its writes when the block raises
Rollback_KeepsWrites(written, snapshot) == written

\* a rollback that removes the rows inserted in the block and keeps the
\* updates made to rows that existed
Rollback_InsertsOnly(written, snapshot) ==
    IF Len(written) > Len(snapshot) THEN snapshot ELSE written

\* transaction.atomic leaving the block by an exception: the rows are as
\* they were when the block was entered
Rollback(written, snapshot) == snapshot

\* the lead ids a client sends: two existing leads and one id that is no lead
RequestLeadIds == {1, 3, 9}
CampaignPayloads ==
    [project_name : {"Altura"}, offer_details : {"Zero fee"},
     lead_ids : SeqsUpTo(RequestLeadIds, MaxLeadIds)]

\* " Hi, an offer for you. \n", "Visit us"
GenTexts == {
    <<" ", "Hi, an offer for you.", " ", "\n">>,
    <<"Visit us">> }
\* what the generator's LLM does for one lead, and whether send_mail fails for it
GenBehaviours == [llm : {LLMText(t) : t \in GenTexts} \cup {LLMRaise}, sendFails : BOOLEAN]
\* the documents the generator retrieves
GenDocs == << Doc("Gym", TRUE, "altura.pdf") >>

\* PersonalizedMessageGenerator.generate when the LLM answered
PersonalizedMessage(b) ==
    [body |-> Strip(b.llm.content),
     sources |-> [i \in 1..Len(GenDocs) |-> SourceOf(GenDocs[i])]]

\* a query that yields a lead once for every time its id is listed
LeadsIn_PerRequestedId(lead_ids) ==
    [i \in 1..Len(lead_ids) |-> LeadById(lead_ids[i])]

\* list(Lead.objects.filter(id__in=lead_ids)): each lead once, in table order
LeadsIn(lead_ids) ==
    SelectSeq(LeadTable, LAMBDA l : \E i \in 1..Len(lead_ids) : lead_ids[i] = l.id)

\* set(payload.lead_ids) - {lead.id for lead in leads}
MissingIds(lead_ids) ==
    {lead_ids[i] : i \in 1..Len(lead_ids)} \ LeadIds

E_NoLeads == <<"['Select at least one lead to create a campaign.']">>
E_Generation == <<"message generation failed">>
E_NoOverride == <<"CAMPAIGN_EMAIL_OVERRIDE must be set to route nurture emails to your test inbox.">>
E_SendMail == <<"send_mail failed">>
NoError == <<>>

\* str(ValidationError(f"Lead IDs not found: {', '.join(map(str, missing))}"))
E_Missing(missing) ==
    <<"['Lead IDs not found: ">>
    \o (IF missing = {} THEN <<>> ELSE IntToStr(CHOOSE x \in missing : TRUE))
    \o <<"']">>

\* settings.CAMPAIGN_EMAIL_OVERRIDE when it is set
OverrideAddress == "inbox@test.example"

\* _dispatch_email that logs a failed send_mail and continues whatever DEBUG is
DispatchEmail_ContinuesOnFailure(w, campaignId, lead, body, sendFails) ==
    IF ~settings.override THEN [w EXCEPT !.error = E_NoOverride]
    ELSE IF ~settings.credentials THEN w
    ELSE [w EXCEPT !.outbox = Append(@, [campaign |-> campaignId, lead |-> lead.id,
                                         recipient_list |-> <<OverrideAddress>>, message |-> body,
                                         failed |-> sendFails])]

\* _dispatch_email that writes to the lead
DispatchEmail_ToLead(w, campaignId, lead, body, sendFails) ==
    IF ~settings.override THEN [w EXCEPT !.error = E_NoOverride]
    ELSE IF ~settings.credentials THEN w
    ELSE LET call == [campaign |-> campaignId, lead |-> lead.id,
                      recipient_list |-> <<lead.email>>,
                      message |-> body, failed |-> sendFails]
             w1 == [w EXCEPT !.outbox = Append(@, call)]
         IN IF sendFails /\ ~settings.debug THEN [w1 EXCEPT !.error = E_SendMail] ELSE w1

\* _dispatch_email for one lead: the work state after it
DispatchEmail(w, campaignId, lead, body, sendFails) ==
    IF ~settings.override THEN [w EXCEPT !.error = E_NoOverride]
    ELSE IF ~settings.credentials THEN w
    ELSE LET call == [campaign |-> campaignId, lead |-> lead.id,
                      recipient_list |-> <<OverrideAddress>>,
                      message |-> body, failed |-> sendFails]
             w1 == [w EXCEPT !.outbox = Append(@, call)]
         IN IF sendFails /\ ~settings.debug THEN [w1 EXCEPT !.error = E_SendMail] ELSE w1

\* _create_campaign_lead storing the raw LLM text in the conversation
CreateCampaignLead_RawConversation(w, campaignId, lead, message, sendFails) ==
    LET cl == [campaign |-> campaignId, lead |-> lead.id, personalized_message |-> message.body,
               status |-> "sent", dispatch_time |-> w.now, goal_outcome |-> "none",
               scheduled_datetime |-> NoneInt, last_customer_message_at |-> NoneInt,
               last_agent_message_at |-> NoneInt]
        msg == [campaign_lead |-> Len(w.campaignLeads) + 1, sender |-> "agent",
                message |-> <<" ">> \o message.body, intent |-> "", route |-> NoneStr,
                sources |-> message.sources, sql |-> NoneStr]
        w1 == [w EXCEPT !.campaignLeads = Append(@, cl),
                        !.messages = Append(@, msg),
                        !.now = @ + 1]
    IN DispatchEmail(w1, campaignId, lead, message.body, sendFails)

\* _create_campaign_lead: the CampaignLead row, its first conversation
\* message, and the mail
CreateCampaignLead(w, campaignId, lead, message, sendFails) ==
    LET cl == [campaign |-> campaignId, lead |-> lead.id, personalized_message |-> message.body,
               status |-> "sent", dispatch_time |-> w.now, goal_outcome |-> "none",
               scheduled_datetime |-> NoneInt, last_customer_message_at |-> NoneInt,
               last_agent_message_at |-> NoneInt]
        msg == [campaign_lead |-> Len(w.campaignLeads) + 1, sender |-> "agent",
                message |-> message.body, intent |-> "", route |-> NoneStr,
                sources |-> message.sources, sql |-> NoneStr]
        w1 == [w EXCEPT !.campaignLeads = Append(@, cl),
                        !.messages = Append(@, msg),
                        !.now = @ + 1]
    IN DispatchEmail(w1, campaignId, lead, message.body, sendFails)

RECURSIVE CreateLeads(_, _, _, _)
\* the loop of create_campaign over the leads; an exception ends it
CreateLeads(w, campaignId, leads, behaviours) ==
    IF leads = <<>> \/ w.error # NoError THEN w
    ELSE LET lead == Head(leads)
             b == Head(behaviours)
         IN IF b.llm.kind # "text"
            THEN [w EXCEPT !.error = E_Generation,
                           !.genLog = Append(@, [lead |-> lead.id, raised |-> TRUE, body |-> <<>>])]
            ELSE LET message == PersonalizedMessage(b)
                     w1 == [w EXCEPT !.genLog = Append(@, [lead |-> lead.id, raised |-> FALSE,
                                                           body |-> message.body])]
                 IN CreateLeads(CreateCampaignLead(w1, campaignId, lead, message, b.sendFails),
                                campaignId, Tail(leads), Tail(behaviours))

\* campaign.lead_links in Meta.ordering ("-shortlisted_at"): newest first
LeadLinks(cls, campaignId) ==
    LET ids == SelectSeq([i \in 1..Len(cls) |-> i], LAMBDA i : cls[i].campaign = campaignId)
    IN [k \in 1..Len(ids) |-> ids[Len(ids) + 1 - k]]

\* the state CampaignService.create_campaign works on, before the first lead
CreateWork(campaign) ==
    [campaignLeads |-> campaignLeads, messages |-> messages, outbox |-> outbox,
     now |-> now + 1, genLog |-> <<>>, error |-> NoError]

\* POST /campaigns/ (create_campaign with CampaignService.create_campaign in
\* its transaction): every exception is answered 400 and rolls the rows back
CreateCampaignOn(payloads) ==
    /\ req.kind = "none"
    /\ Len(campaigns) < MaxCampaigns
    /\ Len(outbox) < MaxMails
    /\ \E user \in Users, payload \in payloads :
        LET leads == LeadsIn(payload.lead_ids)
            Refuse(detail) ==
                /\ http' = [NoHttp EXCEPT !.endpoint = "create_campaign", !.user = user,
                                          !.status = 400,
                                          !.detail = detail, !.request = payload]
                /\ genLog' = <<>>
                /\ UNCHANGED <<dbVars, now, outbox>>
        IN IF payload.lead_ids = <<>> THEN Refuse(E_NoLeads)
           ELSE IF MissingIds(payload.lead_ids) # {} THEN Refuse(E_Missing(MissingIds(payload.lead_ids)))
           ELSE \E behaviours \in [1..Len(leads) -> GenBehaviours] :
                LET campaign == [project_name |-> payload.project_name,
                                 offer_details |-> payload.offer_details, created_by |-> user]
                    campaignId == Len(campaigns) + 1
                    w == CreateLeads(CreateWork(campaign), campaignId, leads, behaviours)
                IN /\ genLog' = w.genLog
                   /\ outbox' = w.outbox
                   /\ IF w.error # NoError
                      THEN /\ http' = [NoHttp EXCEPT !.endpoint = "create_campaign", !.user = user,
                                                     !.status = 400,
                                                     !.detail = w.error, !.request = payload]
                           /\ campaigns' = Rollback(Append(campaigns, campaign), campaigns)
                           /\ campaignLeads' = Rollback(w.campaignLeads, campaignLeads)
                           /\ messages' = Rollback(w.messages, messages)
                           /\ UNCHANGED now
                      ELSE /\ campaigns' = Append(campaigns, campaign)
                           /\ now' = w.now
                           /\ campaignLeads' = w.campaignLeads
                           /\ messages' = w.messages
                           /\ http' = [NoHttp EXCEPT !.endpoint = "create_campaign", !.user = user,
                                            !.status = 200,
                                            !.body = [id |-> campaignId,
                                                      leads |-> LeadLinks(w.campaignLeads, campaignId)],
                                            !.request = payload]
    /\ saved' = [campaigns |-> campaigns, campaignLeads |-> campaignLeads, messages |-> messages]
    /\ UNCHANGED <<settings, req, agentVars, leadQueries>>
    /\ UNCHANGED <<docVars, calls, formatLog, retrievalLog>>

CreateCampaign == CreateCampaignOn(CampaignPayloads)

-----------------------------------------------------------------------------
\* Customer follow-ups (campaigns.services.ConversationService)

visit_keywords == {
    <<"v","i","s","i","t">>,
    <<"t","o","u","r">>,
    <<"v","i","e","w","i","n","g">>,
    <<"s","e","e"," ","t","h","e"," ","p","r","o","p","e","r","t","y">>,
    <<"s","c","h","e","d","u","l","e"," ","a"," ","v","i","s","i","t">> }
call_keywords == {
    <<"c","a","l","l">>,
    <<"p","h","o","n","e">>,
    <<"d","i","s","c","u","s","s">>,
    <<"s","p","e","a","k">> }

\* _goal_from_intent testing the call keywords first
GoalFromIntent_CallFirst(text) ==
    LET lowered == Lower(text)
    IN IF AnyIn(call_keywords, lowered) THEN "call"
       ELSE IF AnyIn(visit_keywords, lowered) THEN "visit"
       ELSE "none"

\* _goal_from_intent
GoalFromIntent(text) ==
    LET lowered == Lower(text)
    IN IF AnyIn(visit_keywords, lowered) THEN "visit"
       ELSE IF AnyIn(call_keywords, lowered) THEN "call"
       ELSE "none"

\* 'Visit?'
M_Visit == <<"V","i","s","i","t","?">>
\* 'call me re tour'
M_CallTour == <<"c","a","l","l"," ","m","e"," ","r","e"," ","t","o","u","r">>
\* 'Recall it'
M_Recall == <<"R","e","c","a","l","l"," ","i","t">>
\* 'Amenities?'
M_Amenities == <<"A","m","e","n","i","t","i","e","s","?">>
\* 'How many leads?'
M_HowMany == <<"H","o","w"," ","m","a","n","y"," ","l","e","a","d","s","?">>

\* AgentResponseRequest bodies; requested_goal and proposed_schedule are Optional
FollowupRequest(text, goal, schedule) ==
    [customer_message |-> text, requested_goal |-> goal, proposed_schedule |-> schedule]
FollowupRequests == {
    FollowupRequest(M_Visit, NoneStr, 7),
    FollowupRequest(M_CallTour, NoneStr, NoneInt),
    FollowupRequest(M_Recall, NoneStr, NoneInt),
    FollowupRequest(M_Amenities, NoneStr, NoneInt),
    FollowupRequest(M_Amenities, "call", 7),
    FollowupRequest(M_Visit, "call", NoneInt),
    FollowupRequest(M_Visit, "none", NoneInt),
    FollowupRequest(M_HowMany, NoneStr, NoneInt) }

\* payload.requested_goal or _goal_from_intent(payload.customer_message);
\* every GoalOutcome member, "none" included, is a non-empty string
RequestGoal(payload) ==
    IF payload.requested_goal # NoneStr THEN payload.requested_goal
    ELSE GoalFromIntent(payload.customer_message)

\* a mark_responded that sets 'responded' whatever the status was
MarkResponded_Always(cl, t) ==
    [cl EXCEPT !.status = "responded",
               !.last_customer_message_at = t]

\* CampaignLead.mark_responded
MarkResponded(cl, t) ==
    [cl EXCEPT !.status = IF cl.status # "goal_met" THEN "responded" ELSE @,
               !.last_customer_message_at = t]

\* a mark_goal that records the outcome and leaves the status alone
MarkGoal_OutcomeOnly(cl, outcome, scheduled_for, t) ==
    [cl EXCEPT !.goal_outcome = outcome,
               !.scheduled_datetime = scheduled_for,
               !.last_agent_message_at = t]

\* CampaignLead.mark_goal
MarkGoal(cl, outcome, scheduled_for, t) ==
    [cl EXCEPT !.goal_outcome = outcome,
               !.status = "goal_met",
               !.scheduled_datetime = scheduled_for,
               !.last_agent_message_at = t]

\* schedule.strftime("%A, %d %B at %H:%M")
StrfTime(schedule) == <<"%A, %d %B at %H:%M of ">> \o IntToStr(schedule)

\* _goal_confirmation_message
GoalConfirmationMessage(cl, goal, schedule) ==
    LET lead == LeadById(cl.lead)
        campaign == campaigns[cl.campaign]
        schedule_text == IF schedule # NoneInt THEN StrfTime(schedule)
                         ELSE <<"the earliest available slot">>
    IN IF goal = "visit"
       THEN <<"Wonderful news, ", lead.first_name, "! I've reserved a property viewing for ">>
            \o schedule_text
            \o <<" at ", campaign.project_name, ". ",
                 "Our sales team will confirm the details over email shortly.">>
       ELSE <<"Great, ", lead.first_name, "! I've scheduled a call for ">>
            \o schedule_text
            \o <<" to walk you through ", campaign.project_name, ". ",
                 "A sales advisor will reach out from the official line.">>

T_DefaultReply == <<"Thank you for reaching out. I'll get back to you shortly.">>

\* the reply text of a follow-up that ignores the result's "answer"
ReplyText_MessageOnly(agent_result) ==
    IF Truthy(GetText(agent_result, "message")) THEN GetText(agent_result, "message")
    ELSE T_DefaultReply

\* agent_result.get("message") or agent_result.get("answer") or the default
ReplyText(agent_result) ==
    IF Truthy(GetText(agent_result, "message")) THEN GetText(agent_result, "message")
    ELSE IF Truthy(GetText(agent_result, "answer")) THEN GetText(agent_result, "answer")
    ELSE T_DefaultReply

\* ConversationMessage rows of the follow-up conversation
CustomerMessage(clId, payload, goal) ==
    [campaign_lead |-> clId, sender |-> "customer", message |-> payload.customer_message,
     intent |-> goal, route |-> NoneStr, sources |-> NoneText, sql |-> NoneStr]
ConfirmationMessage(clId, reply, goal) ==
    [campaign_lead |-> clId, sender |-> "agent", message |-> reply,
     intent |-> goal, route |-> "goal_confirmation", sources |-> NoneText, sql |-> NoneStr]
AgentMessage(clId, agent_result) ==
    [campaign_lead |-> clId, sender |-> "agent", message |-> ReplyText(agent_result),
     intent |-> "none",
     route |-> IF "route" \in agent_result.keys THEN agent_result.route ELSE "rag",
     sources |-> IF "sources" \in agent_result.keys THEN agent_result.sources ELSE NoneText,
     sql |-> IF "sql" \in agent_result.keys THEN agent_result.sql ELSE NoneStr]

\* the customer messages stored so far
CustomerMessages == SelectSeq(messages, LAMBDA m : m.sender = "customer")

\* POST /followups/{id}/respond (agent_respond) and handle_customer_message up
\* to its return on the goal path, or up to the call of agent.run
AgentRespondBeginWithin(requests, maxFollowups) ==
    /\ req.kind = "none"
    /\ Len(CustomerMessages) < maxFollowups
    /\ \E user \in Users, clId \in ThreadIds, payload \in requests :
        IF ~OwnedCampaignLead(user, clId)
        THEN /\ http' = [NoHttp EXCEPT !.endpoint = "agent_respond", !.status = 404,
                                       !.detail = "Not Found"]
             /\ UNCHANGED <<dbVars, now, req, saved, agentVars>>
        ELSE LET goal == RequestGoal(payload)
                 responded == MarkResponded(campaignLeads[clId], now)
                 customer == CustomerMessage(clId, payload, goal)
             IN /\ saved' = [campaigns |-> campaigns, campaignLeads |-> campaignLeads,
                             messages |-> messages]
                /\ UNCHANGED campaigns
                /\ IF goal # "none"
                   THEN LET reply == GoalConfirmationMessage(responded, goal, payload.proposed_schedule)
                        IN /\ campaignLeads' = [campaignLeads EXCEPT ![clId] =
                                    MarkGoal(responded, goal, payload.proposed_schedule, now + 1)]
                           /\ messages' = messages \o <<customer, ConfirmationMessage(clId, reply, goal)>>
                           /\ http' = [NoHttp EXCEPT !.endpoint = "agent_respond", !.user = user,
                                            !.status = 200,
                                            !.body = [reply |-> reply, intent |-> goal,
                                                      goal_outcome |-> goal,
                                                      scheduled_time |-> payload.proposed_schedule],
                                            !.request = [cl |-> clId, payload |-> payload]]
                           /\ now' = now + 2
                           /\ nodeLog' = <<>>
                           /\ UNCHANGED <<req, agentPc, agentState, checkpoint, decideLog,
                                          t2sqlLog, ragLog, svc>>
                   ELSE /\ campaignLeads' = [campaignLeads EXCEPT ![clId] = responded]
                        /\ messages' = Append(messages, customer)
                        /\ req' = [NoReq EXCEPT !.kind = "agent_respond", !.user = user, !.cl = clId,
                                                !.text = payload.customer_message,
                                                !.goal = payload.requested_goal,
                                                !.schedule = payload.proposed_schedule]
                        /\ http' = NoHttp
                        /\ agentPc' = "router"
                        /\ agentState' = [checkpoint[ThreadOf(clId)] EXCEPT
                                            !.query = payload.customer_message,
                                            !.lead_id = campaignLeads[clId].lead,
                                            !.campaign_id = campaignLeads[clId].campaign]
                        /\ nodeLog' = <<>>
                        /\ decideLog' = <<>>
                        /\ t2sqlLog' = <<>>
                        /\ ragLog' = <<>>
                        /\ UNCHANGED <<now, checkpoint, svc>>
    /\ UNCHANGED <<outbox, settings, leadQueries, genLog>>
    /\ UNCHANGED <<docVars, calls, formatLog, retrievalLog>>

AgentRespondBeginOn(requests) == AgentRespondBeginWithin(requests, MaxFollowups)

AgentRespondBegin == AgentRespondBeginOn(FollowupRequests)

\* handle_customer_message after agent.run returned or raised
AgentRespondEnd ==
    /\ req.kind = "agent_respond"
    /\ agentPc \in {"end", "raised"}
    /\ IF agentPc = "raised"
       THEN /\ campaignLeads' = Rollback(campaignLeads, saved.campaignLeads)
            /\ messages' = Rollback(messages, saved.messages)
            /\ http' = [NoHttp EXCEPT !.endpoint = "agent_respond", !.user = req.user, !.status = 500,
                                      !.detail = "Internal Server Error",
                                      !.request = [cl |-> req.cl,
                                                   payload |-> FollowupRequest(req.text, req.goal, req.schedule)]]
            /\ UNCHANGED now
       ELSE LET agent_result == agentState.response
                reply == AgentMessage(req.cl, agent_result)
            IN /\ messages' = Append(messages, reply)
               /\ campaignLeads' = [campaignLeads EXCEPT ![req.cl].last_agent_message_at = now + 1]
               /\ http' = [NoHttp EXCEPT !.endpoint = "agent_respond", !.user = req.user,
                                !.status = 200,
                                !.body = [reply |-> reply.message, intent |-> "none",
                                          goal_outcome |-> "none", scheduled_time |-> NoneInt],
                                !.request = [cl |-> req.cl,
                                             payload |-> FollowupRequest(req.text, req.goal, req.schedule)]]
               /\ now' = now + 2
    /\ req' = NoReq
    /\ agentPc' = "idle"
    /\ decideLog' = <<>>
    /\ t2sqlLog' = <<>>
    /\ ragLog' = <<>>
    /\ UNCHANGED <<campaigns, agentState, checkpoint, nodeLog, svc>>
    /\ UNCHANGED <<outbox, settings, saved, leadQueries, genLog>>
    /\ UNCHANGED <<docVars, calls, formatLog, retrievalLog>>

-----------------------------------------------------------------------------
\* Brochure upload and ingestion (agents.ingestion, agents.api.upload_documents)

\* ProjectName.choices, in declaration order (value and label are equal)
\* 'Altura'
P_Altura == <<"A","l","t","u","r","a">>
\* 'Beachgate by Address'
P_Beachgate == <<"B","e","a","c","h","g","a","t","e"," ","b","y"," ","A","d","d","r","e","s","s">>
\* 'Damac Bay by Cavalli'
P_DamacBay == <<"D","a","m","a","c"," ","B","a","y"," ","b","y"," ","C","a","v","a","l","l","i">>
\* 'DLF West Park'
P_DlfWestPark == <<"D","L","F"," ","W","e","s","t"," ","P","a","r","k">>
\* 'Godrej Vistas'
P_GodrejVistas == <<"G","o","d","r","e","j"," ","V","i","s","t","a","s">>
\* 'Lumina Grand'
P_LuminaGrand == <<"L","u","m","i","n","a"," ","G","r","a","n","d">>
\* 'Sobha Crest'
P_SobhaCrest == <<"S","o","b","h","a"," ","C","r","e","s","t">>
\* 'Sobha Waves'
P_SobhaWaves == <<"S","o","b","h","a"," ","W","a","v","e","s">>
ProjectChoices == <<P_Altura, P_Beachgate, P_DamacBay, P_DlfWestPark,
                    P_GodrejVistas, P_LuminaGrand, P_SobhaCrest, P_SobhaWaves>>

\* str.replace(old, new) for one-character old and new
ReplaceChar(s, old, new) == [i \in 1..Len(s) |-> IF s[i] = old THEN new ELSE s[i]]

\* Path(name).name: the part after the last "/"
Basename(name) ==
    LET slashes == {i \in 1..Len(name) : name[i] = "/"}
    IN IF slashes = {} THEN name
       ELSE SubSeq(name, (CHOOSE i \in slashes : \A j \in slashes : j <= i) + 1, Len(name))

\* _detect_project_name: the first choice whose lowered label occurs in the
\* lowered file name with "-" and "_" turned into spaces, else ""
DetectProjectName(filename) ==
    LET normalized == ReplaceChar(ReplaceChar(Lower(filename), "-", " "), "_", " ")
        hits == {k \in 1..Len(ProjectChoices) : Contains(Lower(ProjectChoices[k]), normalized)}
    IN IF hits = {} THEN <<>>
       ELSE ProjectChoices[CHOOSE k \in hits : \A j \in hits : k <= j]

\* 'project_'
T_project_ == <<"p","r","o","j","e","c","t","_">>
\* 'projects'
T_projects == <<"p","r","o","j","e","c","t","s">>

\* _collection_name that keeps the project name as it is written
CollectionName_Verbatim(project_name) ==
    IF project_name # NoneText /\ project_name # <<>>
    THEN T_project_ \o project_name
    ELSE T_projects

\* _collection_name
CollectionName(project_name) ==
    IF project_name # NoneText /\ project_name # <<>>
    THEN T_project_ \o ReplaceChar(Lower(project_name), " ", "_")
    ELSE T_projects

\* 'altura-brochure.pdf'
F_Altura == <<"a","l","t","u","r","a","-","b","r","o","c","h","u","r","e",".","p","d","f">>
\* 'DLF_West_Park.txt'
F_Dlf == <<"D","L","F","_","W","e","s","t","_","P","a","r","k",".","t","x","t">>
\* 'notes.txt'
F_Notes == <<"n","o","t","e","s",".","t","x","t">>

\* the uploaded files: name and content type
UploadedFiles == {
    [name |-> F_Altura, content_type |-> "application/pdf"],
    [name |-> F_Dlf, content_type |-> "text/plain"],
    [name |-> F_Notes, content_type |-> ""] }

\* the steps of ingest that call a loader, the splitter or the vector store
IngestSteps == <<"load", "split_documents", "for_collection", "delete", "add_documents", "persist">>
StepIndex(step) == CHOOSE k \in 1..Len(IngestSteps) : IngestSteps[k] = step

\* What happens while one file is handled: whether saving the file raises,
\* the step of ingest that raises ("none": no step does), and the number of
\* chunks the splitter makes of the file.
FileBehaviours == {
    [storeRaises |-> TRUE, failAt |-> "none", chunks |-> 0],
    [storeRaises |-> FALSE, failAt |-> "none", chunks |-> 2],
    [storeRaises |-> FALSE, failAt |-> "none", chunks |-> 0],
    [storeRaises |-> FALSE, failAt |-> "load", chunks |-> 0],
    [storeRaises |-> FALSE, failAt |-> "add_documents", chunks |-> 0],
    [storeRaises |-> FALSE, failAt |-> "persist", chunks |-> 2] }

\* str(exc) of the exception a step raises
StepError(step) == <<step, " failed">>
E_StoreUpload == <<"file save failed">>

\* the work state of an upload request
UploadWork ==
    [brochures |-> brochures, ingestionLogs |-> ingestionLogs, vectorStore |-> vectorStore,
     now |-> now, uploadLog |-> <<>>, responses |-> <<>>, error |-> NoError]

\* store_upload: the new BrochureDocument row (the block is atomic: when
\* saving the file raises, no row remains)
StoreUpload(uploaded_file, project_name, user) ==
    LET original_name == Basename(uploaded_file.name)
        detected_project == IF project_name # NoneText /\ project_name # <<>>
                            THEN project_name ELSE DetectProjectName(original_name)
    IN [project_name |-> detected_project,
        original_name |-> original_name,
        file |-> original_name,
        content_type |-> uploaded_file.content_type,
        uploaded_by |-> user,
        last_indexed_at |-> NoneInt]

\* the chunks ingest hands to store.add_documents
ChunksOf(documentId, brochure, n, collection_name) ==
    [idx \in 1..n |-> [document_id |-> documentId, project_name |-> brochure.project_name,
                       source |-> brochure.file, chunk_index |-> idx - 1,
                       collection |-> collection_name]]

\* a store.delete that deletes nothing
DeleteWhere_Nothing(store, documentId, collection_name) == store

\* store.delete(where={"document_id": str(brochure.id)}) on the collection's
\* store: what is left in the vector store
DeleteWhere(store, documentId, collection_name) ==
    SelectSeq(store, LAMBDA c : c.document_id # documentId \/ c.collection # collection_name)

\* has ingest, failing at failAt ("none": not failing), gone through step?
Passed(step, failAt) == failAt = "none" \/ StepIndex(step) < StepIndex(failAt)

\* ingest that marks the brochure indexed before it writes to the store
Ingest_MarksFirst(w, documentId, b) ==
    LET brochure == w.brochures[documentId]
        collection_name == CollectionName(brochure.project_name)
        kept == DeleteWhere(w.vectorStore, documentId, collection_name)
        store == IF Passed("add_documents", b.failAt)
                 THEN kept \o ChunksOf(documentId, brochure, b.chunks, collection_name)
                 ELSE IF Passed("delete", b.failAt) THEN kept ELSE w.vectorStore
        w1 == [w EXCEPT !.vectorStore = store,
                        !.brochures[documentId].last_indexed_at = w.now,
                        !.now = @ + 1]
    IN IF b.failAt = "none"
       THEN [w1 EXCEPT
                !.ingestionLogs = Append(@, [document |-> documentId, status |-> "completed",
                    detail |-> <<"Ingested ">> \o IntToStr(b.chunks) \o <<" chunks into ">> \o collection_name,
                    chunks_indexed |-> b.chunks]),
                !.responses = Append(@, [document_id |-> documentId,
                                         project_name |-> brochure.project_name,
                                         chunks_indexed |-> b.chunks,
                                         collection_name |-> collection_name])]
       ELSE [w1 EXCEPT
                !.ingestionLogs = Append(@, [document |-> documentId, status |-> "failed",
                                             detail |-> StepError(b.failAt), chunks_indexed |-> 0]),
                !.error = StepError(b.failAt)]

\* DocumentIngestionService.ingest, and the response entry upload_documents
\* makes of its outcome
Ingest(w, documentId, b) ==
    LET brochure == w.brochures[documentId]
        collection_name == CollectionName(brochure.project_name)
        kept == DeleteWhere(w.vectorStore, documentId, collection_name)
        store == IF Passed("add_documents", b.failAt)
                 THEN kept \o ChunksOf(documentId, brochure, b.chunks, collection_name)
                 ELSE IF Passed("delete", b.failAt) THEN kept ELSE w.vectorStore
        w1 == [w EXCEPT !.vectorStore = store]
    IN IF b.failAt = "none"
       THEN [w1 EXCEPT
                !.brochures[documentId].last_indexed_at = w.now,
                !.now = @ + 1,
                !.ingestionLogs = Append(@, [document |-> documentId, status |-> "completed",
                    detail |-> <<"Ingested ">> \o IntToStr(b.chunks) \o <<" chunks into ">> \o collection_name,
                    chunks_indexed |-> b.chunks]),
                !.responses = Append(@, [document_id |-> documentId,
                                         project_name |-> brochure.project_name,
                                         chunks_indexed |-> b.chunks,
                                         collection_name |-> collection_name])]
       ELSE [w1 EXCEPT
                !.ingestionLogs = Append(@, [document |-> documentId, status |-> "failed",
                                             detail |-> StepError(b.failAt), chunks_indexed |-> 0]),
                !.error = StepError(b.failAt)]

RECURSIVE UploadLoop_KeepsGoing(_, _, _, _, _)
\* the loop of upload_documents, going on to the next file after a failure
UploadLoop_KeepsGoing(w, files, behaviours, project_name, user) ==
    IF files = <<>> THEN w
    ELSE LET uploaded_file == Head(files)
             b == Head(behaviours)
         IN IF b.storeRaises
            THEN UploadLoop_KeepsGoing(
                    [w EXCEPT !.error = <<"Failed to ingest ">> \o uploaded_file.name \o <<": ">> \o E_StoreUpload,
                              !.uploadLog = Append(@, [op |-> "store_upload", file |-> uploaded_file.name,
                                                       raised |-> TRUE])],
                    Tail(files), Tail(behaviours), project_name, user)
            ELSE LET documentId == Len(w.brochures) + 1
                     w1 == [w EXCEPT !.brochures = Append(@, StoreUpload(uploaded_file, project_name, user)),
                                     !.uploadLog = Append(@, [op |-> "store_upload", file |-> uploaded_file.name,
                                                              raised |-> FALSE])]
                     w2 == Ingest(w1, documentId, b)
                     w3 == [w2 EXCEPT !.uploadLog = Append(@, [op |-> "ingest", file |-> uploaded_file.name,
                                                               raised |-> b.failAt # "none"]),
                                      !.error = IF b.failAt # "none"
                                                THEN <<"Failed to ingest ">> \o uploaded_file.name
                                                     \o <<": ">> \o w2.error
                                                ELSE w.error]
                 IN UploadLoop_KeepsGoing(w3, Tail(files), Tail(behaviours), project_name, user)

RECURSIVE UploadLoop(_, _, _, _, _)
\* the loop of upload_documents over the files; an exception ends it
UploadLoop(w, files, behaviours, project_name, user) ==
    IF files = <<>> \/ w.error # NoError THEN w
    ELSE LET uploaded_file == Head(files)
             b == Head(behaviours)
         IN IF b.storeRaises
            THEN [w EXCEPT !.error = <<"Failed to ingest ">> \o uploaded_file.name \o <<": ">> \o E_StoreUpload,
                           !.uploadLog = Append(@, [op |-> "store_upload", file |-> uploaded_file.name,
                                                    raised |-> TRUE])]
            ELSE LET documentId == Len(w.brochures) + 1
                     w1 == [w EXCEPT !.brochures = Append(@, StoreUpload(uploaded_file, project_name, user)),
                                     !.uploadLog = Append(@, [op |-> "store_upload", file |-> uploaded_file.name,
                                                              raised |-> FALSE])]
                     w2 == Ingest(w1, documentId, b)
                     w3 == [w2 EXCEPT !.uploadLog = Append(@, [op |-> "ingest", file |-> uploaded_file.name,
                                                               raised |-> b.failAt # "none"]),
                                      !.error = IF b.failAt # "none"
                                                THEN <<"Failed to ingest ">> \o uploaded_file.name
                                                     \o <<": ">> \o w2.error
                                                ELSE NoError]
                 IN UploadLoop(w3, Tail(files), Tail(behaviours), project_name, user)

\* the project_name query parameter: absent, or a project
ProjectParams == {NoneText, P_Altura}

\* POST /documents/upload (upload_documents)
UploadDocuments ==
    /\ req.kind = "none"
    /\ Len(brochures) < MaxBrochures
    /\ \E user \in Users, project_name \in ProjectParams, n \in 1..MaxFiles :
       \E files \in [1..n -> UploadedFiles], behaviours \in [1..n -> FileBehaviours] :
        \E w \in {UploadLoop(UploadWork, files, behaviours, project_name, user)} :
           /\ brochures' = w.brochures
           /\ ingestionLogs' = w.ingestionLogs
           /\ vectorStore' = w.vectorStore
           /\ uploadLog' = w.uploadLog
           /\ now' = w.now
           /\ http' = IF w.error # NoError
                      THEN [NoHttp EXCEPT !.endpoint = "upload_documents", !.status = 400,
                                          !.detail = w.error,
                                          !.request = [files |-> files, project_name |-> project_name]]
                      ELSE [NoHttp EXCEPT !.endpoint = "upload_documents", !.status = 200,
                                          !.body = w.responses,
                                          !.request = [files |-> files, project_name |-> project_name]]
    /\ saved' = [brochures |-> brochures, ingestionLogs |-> ingestionLogs]
    /\ UNCHANGED <<dbVars, outbox, settings, req, agentVars, leadQueries, genLog, calls, formatLog, retrievalLog>>

-----------------------------------------------------------------------------
\* Campaign endpoints that only read, and the users' campaigns side by side

\* get_object_or_404(Campaign, pk=campaign_id, created_by=request.user)
OwnedCampaign(user, campaignId) ==
    /\ campaignId \in 1..Len(campaigns)
    /\ campaigns[campaignId].created_by = user

RECURSIVE Descending(_)
\* order_by("-created_at"): the latest campaign first
Descending(S) ==
    IF S = {} THEN <<>>
    ELSE LET m == CHOOSE x \in S : \A y \in S : x >= y
         IN <<m>> \o Descending(S \ {m})

\* CampaignSchema.from_orm / CampaignLeadSchema.from_orm
CampaignSchema(campaignId) ==
    [id |-> campaignId, project_name |-> campaigns[campaignId].project_name,
     offer_details |-> campaigns[campaignId].offer_details]
CampaignLeadSchema(clId) == [id |-> clId, link |-> campaignLeads[clId]]

\* the messages of campaign_lead.messages.order_by("created_at")
MessagesOf(clId) == SelectSeq(messages, LAMBDA m : m.campaign_lead = clId)

\* total_leads, messages_sent, responses_received, goals_completed
Metrics(campaignId) ==
    LET links == {i \in 1..Len(campaignLeads) : campaignLeads[i].campaign = campaignId}
    IN [total_leads |-> Cardinality(links),
        messages_sent |-> Cardinality({i \in links : campaignLeads[i].personalized_message # <<>>}),
        leads_responded |-> Cardinality({i \in links : campaignLeads[i].status \in {"responded", "goal_met"}}),
        goals_completed |-> Cardinality({i \in links : campaignLeads[i].goal_outcome \in {"call", "visit"}})]

NotFound(endpoint, user, request) ==
    [NoHttp EXCEPT !.endpoint = endpoint, !.user = user, !.status = 404,
                   !.detail = "Not Found", !.request = request]
Ok(endpoint, user, request, body) ==
    [NoHttp EXCEPT !.endpoint = endpoint, !.user = user, !.status = 200,
                   !.body = body, !.request = request]

\* what list_campaigns answers to user
ListCampaignsResponse(user) ==
    LET ids == Descending({c \in 1..Len(campaigns) : campaigns[c].created_by = user})
    IN Ok("list_campaigns", user, <<>>, [k \in 1..Len(ids) |-> CampaignSchema(ids[k])])

\* what campaign_dashboard answers to user for campaign_id
DashboardResponse(user, campaignId) ==
    IF ~OwnedCampaign(user, campaignId)
    THEN NotFound("campaign_dashboard", user, [campaign |-> campaignId])
    ELSE LET links == LeadLinks(campaignLeads, campaignId)
         IN Ok("campaign_dashboard", user, [campaign |-> campaignId],
               [campaign |-> CampaignSchema(campaignId),
                metrics |-> Metrics(campaignId),
                leads |-> [k \in 1..Len(links) |-> CampaignLeadSchema(links[k])]])

\* what fetch_conversation answers to user for campaign_id and campaign_lead_id
ConversationResponse(user, campaignId, clId) ==
    IF ~OwnedCampaign(user, campaignId)
       \/ clId \notin 1..Len(campaignLeads)
       \/ campaignLeads[clId].campaign # campaignId
    THEN NotFound("fetch_conversation", user, [campaign |-> campaignId, cl |-> clId])
    ELSE Ok("fetch_conversation", user, [campaign |-> campaignId, cl |-> clId],
            [lead |-> campaignLeads[clId].lead, messages |-> MessagesOf(clId)])

\* GET /campaigns/
ListCampaigns ==
    /\ req.kind = "none"
    /\ \E user \in Users : http' = ListCampaignsResponse(user)
    /\ UNCHANGED <<dbVars, now, outbox, settings, req, saved, agentVars, leadQueries, genLog>>
    /\ UNCHANGED <<docVars, calls, formatLog, retrievalLog>>

\* GET /campaigns/{campaign_id}/dashboard
CampaignDashboard ==
    /\ req.kind = "none"
    /\ \E user \in Users, campaignId \in 1..MaxCampaigns :
        http' = DashboardResponse(user, campaignId)
    /\ UNCHANGED <<dbVars, now, outbox, settings, req, saved, agentVars, leadQueries, genLog>>
    /\ UNCHANGED <<docVars, calls, formatLog, retrievalLog>>

\* GET /campaigns/{campaign_id}/followups/{campaign_lead_id}
FetchConversation ==
    /\ req.kind = "none"
    /\ \E user \in Users, campaignId \in 1..MaxCampaigns, clId \in ThreadIds :
        http' = ConversationResponse(user, campaignId, clId)
    /\ UNCHANGED <<dbVars, now, outbox, settings, req, saved, agentVars, leadQueries, genLog>>
    /\ UNCHANGED <<docVars, calls, formatLog, retrievalLog>>

\* "How many campaigns?"
Q_HowManyCampaigns ==
    <<"H","o","w"," ","m","a","n","y"," ","c","a","m","p","a","i","g","n","s","?">>
K_campaign_count == <<"c","a","m","p","a","i","g","n","_","c","o","u","n","t">>

\* The SqliteRunner works on db.sqlite3, the database of the application,
\* whose campaign tables the schema prompt describes to the Vanna agent: a
\* count over campaigns_campaign returns the number of Campaign rows.
CampaignCountRun ==
    [sql |-> "SELECT COUNT(*) AS campaign_count FROM campaigns_campaign",
     meta |-> RowList(<< << <<K_campaign_count, Len(campaigns)>> >> >>),
     ui |-> NotAList, message |-> "1 row"]

\* the requests and collaborator behaviours followed while two users work
\* side by side
TenantPayloads == {p \in CampaignPayloads : p.lead_ids \in {<<>>, <<1>>}}
TenantRequests == {FollowupRequest(Q_HowManyCampaigns, NoneStr, NoneInt)}
TenantQueries == {Q_HowManyCampaigns}
TenantRouterOutcomes ==
    {LLMText(<<"T","2","S","Q","L">>), LLMText(<<" ","S","t","o","r","a","g","e","\n">>)}
TenantSqlBehaviours == {
    [first |-> NoAttempt, runs |-> <<CampaignCountRun>>, streamed |-> "", raises |-> FALSE],
    [first |-> NoAttempt, runs |-> <<>>, streamed |-> "", raises |-> TRUE] }
TenantRagBehaviours == {b \in FollowupRagBehaviours : b.llm = LLMText(<<"G","y","m">>)}

TenantCreateCampaign == CreateCampaignOn(TenantPayloads)
TenantRespondBegin == CustomerMessages = <<>> /\ AgentRespondBeginOn(TenantRequests)
TenantQueryBegin == AgentQueryBeginOn(TenantQueries)
TenantRoute == RouteNodeOn(TenantRouterOutcomes)
TenantAnswerSql == AnswerSqlNodeOn(TenantSqlBehaviours)
TenantAnswerRag == AnswerRagNodeOn(TenantRagBehaviours)

-----------------------------------------------------------------------------
\* The life of a campaign lead: campaigns created, customers answering

\* campaigns for lead 1, or for the leads 1 and 3
LifecyclePayloads == {p \in CampaignPayloads : p.lead_ids \in {<<1>>, <<3, 1>>}}
\* a question, a call requested, and a message with a visit keyword whose
\* requested_goal is GoalOutcome.NONE
LifecycleRequests == {
    FollowupRequest(M_Amenities, NoneStr, NoneInt),
    FollowupRequest(M_Recall, "call", NoneInt),
    FollowupRequest(M_Visit, "none", NoneInt) }
\* the agent answers from the brochures, or its LLM raises
LifecycleRouterOutcomes == {LLMText(<<" ","S","t","o","r","a","g","e","\n">>)}
LifecycleRagBehaviours ==
    {b \in FollowupRagBehaviours : b.llm \in {LLMText(<<"G","y","m">>), LLMRaise}}

\* alice creates the campaigns; the generator writes one text, or raises
LifecycleCreate ==
    /\ Len(campaignLeads) < MaxLifecycleLeads
    /\ CreateCampaignOn(LifecyclePayloads)
    /\ http'.user = "alice"
    /\ \A k \in 1..Len(genLog') : ~genLog'[k].raised => genLog'[k].body = <<"Visit us">>
LifecycleRespondBegin == AgentRespondBeginWithin(LifecycleRequests, MaxLifecycleFollowups)
LifecycleRoute == RouteNodeOn(LifecycleRouterOutcomes)
LifecycleAnswerRag == AnswerRagNodeOn(LifecycleRagBehaviours)

-----------------------------------------------------------------------------
\* The text-to-SQL service on its own

\* what a call has to show before _run_agent returned
NoResult == [sql |-> NoneStr, rows |-> <<>>, explanation |-> ""]

\* "How many leads?", "status Budget"
AnswerQuestions == {
    <<"H","o","w"," ","m","a","n","y"," ","l","e","a","d","s","?">>,
    <<"s","t","a","t","u","s"," ","B","u","d","g","e","t">> }

\* one whole answer(question), no other call running meanwhile
Answer ==
    /\ req.kind = "none"
    /\ Len(calls) < MaxCalls
    /\ \A i \in 1..Len(calls) : calls[i].pc \in {"returned", "raised"}
    /\ \E question \in AnswerQuestions, b \in AgentBehaviours :
        /\ svc' = ServiceAfter(b)
        /\ calls' = Append(calls,
                [question |-> question, behaviour |-> b, before |-> svc,
                 pc |-> IF b.raises THEN "raised" ELSE "returned",
                 at |-> Len(b.runs) + 1, part |-> 1,
                 result |-> IF b.raises THEN NoResult ELSE TextToSQLResult(b)])
    /\ UNCHANGED <<dbVars, now, outbox, settings, req, http, saved, leadQueries, genLog>>
    /\ UNCHANGED <<agentPc, agentState, checkpoint, nodeLog, decideLog, t2sqlLog, ragLog>>
    /\ UNCHANGED <<docVars, formatLog, retrievalLog>>

-----------------------------------------------------------------------------
\* answer() calls of requests served at the same time. get_t2sql_service is
\* cached, so every request thread works on the one VannaTextToSQLService;
\* a call is followed statement by statement.

\* the behaviours followed: one attempt that executes SQL and returns
OverlapBehaviours ==
    {b \in AgentBehaviours : ~b.first.failed /\ ~b.raises /\ b.streamed = ""}

\* answer() up to asyncio.run: _reset_state
AnswerEnter ==
    /\ req.kind = "none"
    /\ Len(calls) < MaxCalls
    /\ \E question \in AnswerQuestions, b \in OverlapBehaviours :
        calls' = Append(calls,
            [question |-> question, behaviour |-> b, before |-> svc,
             pc |-> "running", at |-> 1, part |-> 1, result |-> NoResult])
    /\ svc' = ResetState
    /\ UNCHANGED <<dbVars, now, outbox, settings, req, http, saved, leadQueries, genLog>>
    /\ UNCHANGED <<agentPc, agentState, checkpoint, nodeLog, decideLog, t2sqlLog, ragLog>>
    /\ UNCHANGED <<docVars, formatLog, retrievalLog>>

\* one of the three assignments of _RecordingRunSqlTool.execute, for the
\* execution a running call has reached
AnswerExecute ==
    /\ \E k \in 1..Len(calls) :
        LET c == calls[k]
        IN /\ c.pc = "running"
           /\ c.at <= Len(c.behaviour.runs)
           /\ LET rec == RecordExecute(svc, c.behaviour.runs[c.at])
              IN svc' = CASE c.part = 1 -> [svc EXCEPT !.last_sql = rec.last_sql]
                          [] c.part = 2 -> [svc EXCEPT !.last_rows = rec.last_rows]
                          [] OTHER -> [svc EXCEPT !.last_message = rec.last_message]
           /\ calls' = [calls EXCEPT ![k] =
                            IF c.part < 3 THEN [c EXCEPT !.part = c.part + 1]
                            ELSE [c EXCEPT !.at = c.at + 1, !.part = 1]]
    /\ UNCHANGED <<dbVars, now, outbox, settings, req, http, saved, leadQueries, genLog>>
    /\ UNCHANGED <<agentPc, agentState, checkpoint, nodeLog, decideLog, t2sqlLog, ragLog>>
    /\ UNCHANGED <<docVars, formatLog, retrievalLog>>

\* _run_agent after the stream ended: the default SQL text and the result
AnswerReturn ==
    /\ \E k \in 1..Len(calls) :
        LET c == calls[k]
            st == IF svc.last_sql = NoneStr THEN [svc EXCEPT !.last_sql = SqlNotGenerated] ELSE svc
        IN /\ c.pc = "running"
           /\ c.at > Len(c.behaviour.runs)
           /\ svc' = st
           /\ calls' = [calls EXCEPT ![k] =
                            [c EXCEPT !.pc = "returned",
                                      !.result = RunAgentResult(st, c.behaviour.streamed)]]
    /\ UNCHANGED <<dbVars, now, outbox, settings, req, http, saved, leadQueries, genLog>>
    /\ UNCHANGED <<agentPc, agentState, checkpoint, nodeLog, decideLog, t2sqlLog, ragLog>>
    /\ UNCHANGED <<docVars, formatLog, retrievalLog>>

-----------------------------------------------------------------------------
\* The answer formatter on its own

\* "", "How many leads?", "Status of CONNECTED leads", "status Budget"
FormatQuestions == {
    <<>>,
    <<"H","o","w"," ","m","a","n","y"," ","l","e","a","d","s","?">>,
    <<"S","t","a","t","u","s"," ","o","f"," ","C","O","N","N","E","C","T","E","D"," ",
      "l","e","a","d","s">>,
    <<"s","t","a","t","u","s"," ","B","u","d","g","e","t">> }

\* n rows of two columns
RowsOfLen(n) == [i \in 1..n |-> << <<K_id, i>>, <<K_unit_type, 10 * i>> >>]

\* the row lists formatted: none to MaxRows two-column rows, one row of one
\* column, and one row without columns
FormatRowLists == {RowsOfLen(n) : n \in 0..MaxRows} \cup {OneCell, << <<>> >>}

\* one call of T2SQLAnswerFormatter.format
FormatAnswer ==
    /\ req.kind = "none"
    /\ Len(formatLog) < MaxFormats
    /\ \E question \in FormatQuestions, rows \in FormatRowLists :
        formatLog' = Append(formatLog, [question |-> question, rows |-> rows,
                                        message |-> Format(question, rows)])
    /\ UNCHANGED <<dbVars, now, outbox, settings, req, http, saved, agentVars, leadQueries, genLog>>
    /\ UNCHANGED <<docVars, calls, retrievalLog>>

-----------------------------------------------------------------------------
\* Retrieval from the vector store (agents.rag.ProjectRAGService), and
\* ingest called again for a stored brochure

\* a str | None that is neither None nor ""
Named(project_name) == project_name # NoneText /\ project_name # <<>>

\* ProjectRAGService._collection_name, with default_collection "projects"
RagCollectionName(project_name) ==
    IF Named(project_name)
    THEN T_project_ \o ReplaceChar(Lower(project_name), " ", "_")
    ELSE T_projects

\* the chunks a Chroma collection holds, in the order they were added
Collection(store, collection_name) ==
    SelectSeq(store, LAMBDA c : c.collection = collection_name)

FirstN(s, n) == SubSeq(s, 1, IF Len(s) < n THEN Len(s) ELSE n)

\* the non-empty entries of search_prompts: the query, the two prompts made
\* of the project name, the generic prompt
SearchPrompts(project_name, query) ==
    (IF query # <<>> THEN <<"query">> ELSE <<>>)
    \o (IF Named(project_name) THEN <<"highlights", "pricing">> ELSE <<>>)
    \o <<"generic">>

\* a stage of get_documents: the store it reads ("own": the collection of
\* the project, "default": the default collection) and the prompt it
\* searches with ("raw": store.get, no search)
Stage(side, prompt) == [store |-> side, prompt |-> prompt]
SearchStages ==
    {Stage("own", prompt) : prompt \in {"query", "highlights", "pricing", "generic"}}
    \cup {Stage("default", prompt) : prompt \in {"query", "generic"}}

\* store.similarity_search(prompt, k=limit): at most k chunks of the
\* collection; whether any chunk is near the prompt is the embedding's matter
SimilaritySearch(store, collection_name, yields, limit) ==
    IF yields THEN FirstN(Collection(store, collection_name), limit) ELSE <<>>

RECURSIVE SimilaritySearchWithVariants(_, _, _, _, _, _, _)
\* _similarity_search_with_variants: the documents found and the stages
\* consulted, added to those consulted before
SimilaritySearchWithVariants(store, side, collection_name, prompts, hits, limit, consulted) ==
    IF prompts = <<>> THEN [docs |-> <<>>, consulted |-> consulted]
    ELSE LET stage == Stage(side, Head(prompts))
             docs == SimilaritySearch(store, collection_name, stage \in hits, limit)
             log == Append(consulted, [stage |-> stage, docs |-> docs])
         IN IF docs # <<>> THEN [docs |-> docs, consulted |-> log]
            ELSE SimilaritySearchWithVariants(store, side, collection_name, Tail(prompts),
                                              hits, limit, log)

\* a _fallback_documents that returns all it read
FallbackDocuments_Untruncated(store, collection_name, project_name, limit) ==
    IF Named(project_name)
    THEN FirstN(SelectSeq(Collection(store, collection_name),
                          LAMBDA c : c.project_name = project_name), limit)
    ELSE Collection(store, collection_name)

\* _fallback_documents: store.get with the project filter and the limit, or
\* without both, and the loop that stops once limit documents are collected
FallbackDocuments(store, collection_name, project_name, limit) ==
    LET raw == IF Named(project_name)
               THEN FirstN(SelectSeq(Collection(store, collection_name),
                                     LAMBDA c : c.project_name = project_name), limit)
               ELSE Collection(store, collection_name)
    IN FirstN(raw, IF limit < 1 THEN 1 ELSE limit)

\* ProjectRAGService.get_documents: the call, the stages it consulted with
\* what each yielded, and the documents of the RetrievalResult
GetDocuments(store, project_name, query, hits, limit) ==
    LET collection == RagCollectionName(project_name)
        own == SimilaritySearchWithVariants(store, "own", collection,
                    SearchPrompts(project_name, query), hits, limit, <<>>)
        retried ==
            IF own.docs = <<>> /\ Named(project_name)
            THEN LET found == SimilaritySearchWithVariants(store, "default", T_projects,
                                    SearchPrompts(NoneText, query), hits, limit, own.consulted)
                     raw == FallbackDocuments(store, T_projects, project_name, limit)
                 IN IF found.docs # <<>> THEN found
                    ELSE [docs |-> raw,
                          consulted |-> Append(found.consulted,
                                               [stage |-> Stage("default", "raw"), docs |-> raw])]
            ELSE own
        raw == FallbackDocuments(store, collection, project_name, limit)
        final ==
            IF retried.docs = <<>>
            THEN [docs |-> raw,
                  consulted |-> Append(retried.consulted,
                                       [stage |-> Stage("own", "raw"), docs |-> raw])]
            ELSE retried
    IN [called |-> TRUE, project_name |-> project_name, query |-> query, limit |-> limit,
        consulted |-> final.consulted, documents |-> final.docs]

NoRetrieval ==
    [called |-> FALSE, project_name |-> NoneText, query |-> <<>>, limit |-> 0,
     consulted |-> <<>>, documents |-> <<>>]

\* the projects asked for: none, the empty name, a project with a brochure
\* and a project whose name has blanks
RetrievalProjects == {NoneText, <<>>, P_Altura, P_DlfWestPark}
RetrievalQueries == {<<>>, M_Amenities}
\* the searches that find a chunk near their prompt: none, one or two of them
HitChoices == {hits \in SUBSET SearchStages : Cardinality(hits) <= MaxHits}

\* the uploads after which documents are retrieved: those that succeed
RetrievalUpload ==
    /\ UploadDocuments
    /\ http'.status = 200
    /\ \A d \in 1..Len(brochures') : brochures'[d].uploaded_by = "alice"

\* one call of get_documents
Retrieve ==
    /\ req.kind = "none"
    /\ \E project_name \in RetrievalProjects, query \in RetrievalQueries,
          limit \in 1..MaxLimit, hits \in HitChoices :
            retrievalLog' = GetDocuments(vectorStore, project_name, query, hits, limit)
    /\ UNCHANGED <<dbVars, now, outbox, settings, req, http, saved, agentVars, leadQueries, genLog>>
    /\ UNCHANGED <<docVars, calls, formatLog>>

\* what happens while ingest runs again: it ends well and indexes two
\* chunks, one or none, or one of its steps raises
ReingestBehaviours == {
    [storeRaises |-> FALSE, failAt |-> "none", chunks |-> 2],
    [storeRaises |-> FALSE, failAt |-> "none", chunks |-> 1],
    [storeRaises |-> FALSE, failAt |-> "none", chunks |-> 0],
    [storeRaises |-> FALSE, failAt |-> "load", chunks |-> 0],
    [storeRaises |-> FALSE, failAt |-> "delete", chunks |-> 1],
    [storeRaises |-> FALSE, failAt |-> "add_documents", chunks |-> 1],
    [storeRaises |-> FALSE, failAt |-> "persist", chunks |-> 1] }

\* DocumentIngestionService.ingest called for a brochure that is stored
IngestAgain ==
    /\ req.kind = "none"
    /\ Len(ingestionLogs) < MaxIngestions
    /\ \E documentId \in 1..Len(brochures), b \in ReingestBehaviours :
        LET w == Ingest(UploadWork, documentId, b)
        IN /\ brochures' = w.brochures
           /\ ingestionLogs' = w.ingestionLogs
           /\ vectorStore' = w.vectorStore
           /\ now' = w.now
    /\ UNCHANGED <<dbVars, outbox, settings, req, http, saved, agentVars, leadQueries, genLog>>
    /\ UNCHANGED <<uploadLog, calls, formatLog, retrievalLog>>

-----------------------------------------------------------------------------
\* Initial states

SettingsChoices == [override : BOOLEAN, credentials : BOOLEAN, debug : BOOLEAN]

\* no request in progress, no agent run yet
InitIdle ==
    /\ brochures = <<>>
    /\ ingestionLogs = <<>>
    /\ vectorStore = <<>>
    /\ uploadLog = <<>>
    /\ calls = <<>>
    /\ formatLog = <<>>
    /\ retrievalLog = NoRetrieval
    /\ req = NoReq
    /\ http = NoHttp
    /\ saved = NoSaved
    /\ agentPc = "idle"
    /\ agentState = BlankState
    /\ checkpoint = [t \in ThreadIds |-> BlankState]
    /\ nodeLog = <<>>
    /\ decideLog = <<>>
    /\ t2sqlLog = <<>>
    /\ ragLog = <<>>
    /\ svc = ResetState
    /\ leadQueries = 0

InitCommon ==
    /\ now = 1
    /\ outbox = <<>>
    /\ genLog = <<>>
    /\ settings \in SettingsChoices
    /\ InitIdle

\* an empty campaign database
Init ==
    /\ campaigns = <<>>
    /\ campaignLeads = <<>>
    /\ messages = <<>>
    /\ InitCommon

NewCampaignLead(campaign, lead) ==
    [campaign |-> campaign, lead |-> lead, personalized_message |-> <<>>, status |-> "pending",
     dispatch_time |-> NoneInt, goal_outcome |-> "none", scheduled_datetime |-> NoneInt,
     last_customer_message_at |-> NoneInt, last_agent_message_at |-> NoneInt]

\* the database the agent tests run on: one campaign of one user with one
\* CampaignLead, here for a lead that enquired about another project
InitAgent ==
    /\ campaigns = << [project_name |-> "Altura", offer_details |-> "", created_by |-> "alice"] >>
    /\ campaignLeads = << NewCampaignLead(1, 3) >>
    /\ messages = <<>>
    /\ InitCommon
    /\ settings = [override |-> TRUE, credentials |-> TRUE, debug |-> FALSE]

\* the shortlist endpoint alone, on the loaded lead table
InitShortlist ==
    /\ Init
    /\ settings = [override |-> TRUE, credentials |-> TRUE, debug |-> FALSE]

NextShortlist == ShortlistLeads

SpecShortlist == InitShortlist /\ [][NextShortlist]_vars

\* campaign creation alone, under every configuration of the mail settings
NextCreate == CreateCampaign

SpecCreate == Init /\ [][NextCreate]_vars

\* the generator's and the mail server's behaviour while the campaign of
\* InitFollowup was created
FollowupGenBehaviours ==
    << [llm |-> LLMText(<<" ", "Hi, an offer for you.", " ", "\n">>), sendFails |-> FALSE],
       [llm |-> LLMText(<<"Visit us">>), sendFails |-> FALSE] >>

\* the database after alice created one campaign for the leads 1 and 3
InitFollowup ==
    /\ settings = [override |-> TRUE, credentials |-> TRUE, debug |-> FALSE]
    /\ campaigns = << [project_name |-> "Altura", offer_details |-> "Zero fee", created_by |-> "alice"] >>
    /\ LET w == CreateLeads([campaignLeads |-> <<>>, messages |-> <<>>, outbox |-> <<>>,
                             now |-> 2, genLog |-> <<>>, error |-> NoError],
                            1, LeadsIn(<<1, 3>>), FollowupGenBehaviours)
       IN /\ campaignLeads = w.campaignLeads
          /\ messages = w.messages
          /\ outbox = w.outbox
          /\ now = w.now
          /\ genLog = w.genLog
    /\ InitIdle

NextFollowup ==
    \/ AgentRespondBegin
    \/ RouteNode
    \/ AnswerSqlNode
    \/ AnswerRagNode
    \/ AgentRespondEnd

SpecFollowup == InitFollowup /\ [][NextFollowup]_vars

\* brochure uploads alone
NextUpload == UploadDocuments

SpecUpload == InitShortlist /\ [][NextUpload]_vars

\* two users on one deployment: alice has a campaign, mails are not sent
InitTenants ==
    /\ campaigns = << [project_name |-> "Altura", offer_details |-> "", created_by |-> "alice"] >>
    /\ campaignLeads = << NewCampaignLead(1, 3) >>
    /\ messages = <<>>
    /\ InitCommon
    /\ settings = [override |-> TRUE, credentials |-> FALSE, debug |-> FALSE]

NextTenants ==
    \/ ListCampaigns
    \/ CampaignDashboard
    \/ FetchConversation
    \/ TenantCreateCampaign
    \/ TenantRespondBegin
    \/ TenantQueryBegin
    \/ TenantRoute
    \/ TenantAnswerSql
    \/ TenantAnswerRag
    \/ AgentRespondEnd
    \/ AgentQueryEnd
SpecTenants == InitTenants /\ [][NextTenants]_vars

\* campaigns created and followed up: the life of the campaign leads
InitLifecycle ==
    /\ Init
    /\ settings = [override |-> TRUE, credentials |-> FALSE, debug |-> FALSE]

NextLifecycle ==
    \/ LifecycleCreate
    \/ LifecycleRespondBegin
    \/ LifecycleRoute
    \/ LifecycleAnswerRag
    \/ AgentRespondEnd
SpecLifecycle == InitLifecycle /\ [][NextLifecycle]_vars

\* brochures uploaded and documents retrieved
NextRetrieval ==
    \/ RetrievalUpload
    \/ Retrieve
SpecRetrieval == InitShortlist /\ [][NextRetrieval]_vars

\* brochures uploaded and ingested again
NextReingest ==
    \/ UploadDocuments
    \/ IngestAgain
SpecReingest == InitShortlist /\ [][NextReingest]_vars

\* answer() calls one after the other
NextAnswers == Answer
SpecAnswers == InitShortlist /\ [][NextAnswers]_vars

\* answer() calls of request threads running at the same time
NextOverlap ==
    \/ AnswerEnter
    \/ AnswerExecute
    \/ AnswerReturn
SpecOverlap == InitShortlist /\ [][NextOverlap]_vars

NextFormat == FormatAnswer
SpecFormat == InitShortlist /\ [][NextFormat]_vars

NextAgent ==
    \/ AgentQueryBegin
    \/ RouteNode
    \/ AnswerSqlNode
    \/ AnswerRagNode
    \/ AgentQueryEnd

SpecAgent == InitAgent /\ [][NextAgent]_vars

-----------------------------------------------------------------------------
\* Properties of the agent graph (SpecAgent)

RunOver == agentPc \in {"end", "raised"}
RunReturned == agentPc = "end"
Decision == decideLog[1].result

\* C1: every run executes the router node exactly once, then exactly one
\* answer node, the one the router decided on, and then ends (by returning or
\* by the answer node raising); the route of the returned response is the
\* router's decision.
C1_RouterThenDecidedNode ==
    /\ agentPc = "router" => nodeLog = <<>> /\ decideLog = <<>>
    /\ agentPc \in {"t2sql", "rag"} =>
        /\ nodeLog = <<"router">>
        /\ Len(decideLog) = 1
        /\ agentPc = Decision
    /\ RunOver =>
        /\ Len(decideLog) = 1
        /\ Decision \in {"t2sql", "rag"}
        /\ nodeLog = <<"router", Decision>>
    /\ RunReturned =>
        /\ "route" \in agentState.response.keys
        /\ agentState.response.route = Decision

\* a run on a thread whose checkpoint holds the other route has returned
C1_Witness ==
    /\ RunReturned
    /\ nodeLog = <<"router", "rag">>
    /\ svc.last_sql # NoneStr

\* sub occurs in s when letter case is ignored (sub is lower case)
OccursIgnoringCase(sub, s) ==
    \E i \in 0..Len(s) :
        /\ i + Len(sub) <= Len(s)
        /\ \A j \in 1..Len(sub) : Lower(<<s[i + j]>>) = <<sub[j]>>

\* C2: decide never raises and returns "t2sql" or "rag": "t2sql" if the LLM
\* reply contains "sql" in any letter case, otherwise "rag" if it contains
\* "rag"; with neither, or when the LLM call fails, "t2sql" exactly when the
\* lower-cased query contains an analytic keyword, else "rag".
C2_DecideTotalAndRuled ==
    /\ Len(nodeLog) >= 1 => Len(decideLog) = 1
    /\ Len(nodeLog) = 1 => agentPc \in {"t2sql", "rag"}
    /\ \A i \in 1..Len(decideLog) :
        LET d == decideLog[i]
            replied == d.llm.kind = "text"
            keyword == \E k \in sql_keywords : OccursIgnoringCase(k, d.query)
        IN /\ d.result \in {"t2sql", "rag"}
           /\ replied /\ OccursIgnoringCase(S_sql, d.llm.content) => d.result = "t2sql"
           /\ replied /\ ~OccursIgnoringCase(S_sql, d.llm.content)
                /\ OccursIgnoringCase(S_rag, d.llm.content) => d.result = "rag"
           /\ ~(replied /\ (OccursIgnoringCase(S_sql, d.llm.content)
                            \/ OccursIgnoringCase(S_rag, d.llm.content)))
                => (d.result = "t2sql" <=> keyword)

\* the LLM named both tools in upper case and the router chose t2sql
C2_Witness ==
    /\ Len(decideLog) = 1
    /\ decideLog[1].llm.kind = "text"
    /\ OccursIgnoringCase(S_rag, decideLog[1].llm.content)
    /\ OccursIgnoringCase(S_sql, decideLog[1].llm.content)
    /\ ~Contains(S_sql, decideLog[1].llm.content)
    /\ decideLog[1].result = "t2sql"

\* C3: on the t2sql route the text-to-SQL service is called exactly once with
\* the caller's query unmodified and the RAG service is not called; the
\* returned response has route "t2sql", the service result's sql, rows and
\* explanation, and the formatter's rendering of those rows as message.
C3_SqlRoute ==
    RunOver /\ Decision = "t2sql" =>
        /\ Len(t2sqlLog) = 1
        /\ t2sqlLog[1].question = req.text
        /\ ragLog = <<>>
        /\ RunReturned =>
            LET result == t2sqlLog[1].result
                response == agentState.response
            IN /\ t2sqlLog[1].returned
               /\ response.keys = {"route", "sql", "rows", "explanation", "message"}
               /\ response.route = "t2sql"
               /\ response.sql = result.sql
               /\ response.rows = result.rows
               /\ response.explanation = result.explanation
               /\ response.message = Format(req.text, result.rows)

\* a t2sql run returned a one-cell result with its own explanation
C3_Witness ==
    /\ RunReturned
    /\ Decision = "t2sql"
    /\ agentState.response.rows = OneCell
    /\ agentState.response.explanation = "1 row"

\* t is s without its leading and trailing whitespace
IsStripOf(t, s) ==
    \E i \in 0..Len(s) :
        /\ i + Len(t) <= Len(s)
        /\ \A j \in 1..Len(t) : s[i + j] = t[j]
        /\ \A j \in 1..i : s[j] \in Whitespace
        /\ \A j \in (i + Len(t) + 1)..Len(s) : s[j] \in Whitespace
        /\ t # <<>> => t[1] \notin Whitespace /\ t[Len(t)] \notin Whitespace

\* C4: on the rag route the documents are retrieved for the campaign's
\* project and the caller's query and the text-to-SQL service is not called;
\* the returned response has route "rag", the answering LLM's output without
\* surrounding whitespace as answer, and as sources the "source" metadata of
\* the retrieved documents in retrieval order ("" for a document without one).
C4_RagRoute ==
    RunOver /\ Decision = "rag" =>
        /\ Len(ragLog) = 1
        /\ ragLog[1].project_name = campaigns[campaignLeads[req.cl].campaign].project_name
        /\ ragLog[1].query = req.text
        /\ t2sqlLog = <<>>
        /\ RunReturned =>
            LET call == ragLog[1]
                response == agentState.response
            IN /\ response.keys = {"route", "answer", "sources"}
               /\ response.route = "rag"
               /\ call.llm.kind = "text"
               /\ IsStripOf(response.answer, call.llm.content)
               /\ Len(response.sources) = Len(call.docs)
               /\ \A i \in 1..Len(call.docs) :
                    response.sources[i] = IF call.docs[i].hasSource THEN call.docs[i].source ELSE ""

\* a rag run for a lead of another project returned a stripped answer
\* with the sources of three documents
C4_Witness ==
    /\ RunReturned
    /\ Decision = "rag"
    /\ LeadById(campaignLeads[req.cl].lead).project_enquired
         # campaigns[campaignLeads[req.cl].campaign].project_name
    /\ agentState.response.answer # ragLog[1].llm.content
    /\ agentState.response.sources = <<"amenities.pdf", "", "altura.pdf">>

-----------------------------------------------------------------------------
\* Properties of the shortlist endpoint (SpecShortlist)

\* the filter fields of a request that are active
ActiveFields(c) ==
    {f \in {"project_names", "unit_types"} : ~c[f].isNone /\ c[f].items # {}}
    \cup {f \in {"budget_min", "budget_max", "last_conversation_from", "last_conversation_to"} :
            c[f] # NoneInt}
    \cup {f \in {"lead_status"} : c[f] # NoneStr}

\* "Please select at least"
T_PleaseSelectAtLeast == <<"P","l","e","a","s","e"," ","s","e","l","e","c","t"," ","a","t"," ",
                           "l","e","a","s","t">>

StartsWith(prefix, s) == Len(s) >= Len(prefix) /\ SubSeq(s, 1, Len(prefix)) = prefix

SatisfiesAll(l, c) ==
    /\ "project_names" \in ActiveFields(c) => l.project_enquired \in c.project_names.items
    /\ "unit_types" \in ActiveFields(c) => l.unit_type \in c.unit_types.items
    /\ "lead_status" \in ActiveFields(c) => l.status = c.lead_status
    /\ "last_conversation_from" \in ActiveFields(c) =>
            l.last_conversation_date # NoneInt /\ c.last_conversation_from <= l.last_conversation_date
    /\ "last_conversation_to" \in ActiveFields(c) =>
            l.last_conversation_date # NoneInt /\ l.last_conversation_date <= c.last_conversation_to
    /\ ActiveFields(c) \cap {"budget_min", "budget_max"} # {} =>
            \/ l.budget_min = NoneInt /\ l.budget_max = NoneInt
            \/ /\ l.budget_min # NoneInt /\ l.budget_max # NoneInt
               /\ c.budget_min # NoneInt => c.budget_min <= l.budget_max
               /\ c.budget_max # NoneInt => l.budget_min <= c.budget_max

\* C6: for an accepted request the matched leads are exactly the leads that
\* satisfy every supplied filter at once (project in the list, unit type in
\* the list, status equal, last conversation date within the inclusive
\* bounds, budget range overlapping or unknown); no other lead is returned
\* and the reported count is the number of matched leads.
C6_ExactlyTheMatchingLeads ==
    http.endpoint = "shortlist" /\ http.status = 200 =>
        LET matched == {id \in LeadIds : SatisfiesAll(LeadById(id), http.request)}
            returned == {http.body.leads[i] : i \in 1..Len(http.body.leads)}
        IN /\ http.body.count = Cardinality(matched)
           /\ returned \subseteq matched
           /\ Len(http.body.leads) = Cardinality(returned)
           /\ Cardinality(matched) <= PageLimit => returned = matched

\* three filters at once: the lead whose last conversation is on the upper
\* bound is matched, the leads failing the date or the project filter are not
C6_Witness ==
    /\ http.endpoint = "shortlist"
    /\ http.status = 200
    /\ http.request.last_conversation_to = 2
    /\ http.request.project_names = ListOf({"Altura"})
    /\ http.request.lead_status = "connected"
    /\ http.body.leads = <<4>>
    /\ http.body.count = 1


-----------------------------------------------------------------------------
\* Properties of campaign creation (SpecCreate)

CreateSucceeded == http.endpoint = "create_campaign" /\ http.status = 200
RequestedLeads == {http.request.lead_ids[i] : i \in 1..Len(http.request.lead_ids)}
\* the CampaignLead ids of a campaign, and the conversation of a CampaignLead
LinksOf(campaignId) == {i \in 1..Len(campaignLeads) : campaignLeads[i].campaign = campaignId}
Conversation(clId) == SelectSeq(messages, LAMBDA m : m.campaign_lead = clId)
\* the bodies the generator returned for a lead during the request
GeneratedFor(leadId) ==
    {genLog[k].body : k \in {j \in 1..Len(genLog) : genLog[j].lead = leadId /\ ~genLog[j].raised}}

\* C7: after a successful create_campaign for lead ids L the new campaign has
\* exactly one CampaignLead for each distinct lead of L and none for another
\* lead; each has status 'sent', a dispatch_time, the message generated for
\* its lead as personalized_message, and a conversation of exactly one
\* message, sent by the agent, with that same body.
C7_OneSentLinkPerLead ==
    CreateSucceeded =>
        LET links == LinksOf(http.body.id)
        IN /\ \A l \in RequestedLeads :
                Cardinality({i \in links : campaignLeads[i].lead = l}) = 1
           /\ \A i \in links :
                /\ campaignLeads[i].lead \in RequestedLeads
                /\ campaignLeads[i].status = "sent"
                /\ campaignLeads[i].dispatch_time # NoneInt
                /\ GeneratedFor(campaignLeads[i].lead) = {campaignLeads[i].personalized_message}
                /\ Len(Conversation(i)) = 1
                /\ Conversation(i)[1].sender = "agent"
                /\ Conversation(i)[1].message = campaignLeads[i].personalized_message

\* a second campaign created for two leads, one of them named twice over the
\* two campaigns, with different generated messages
C7_Witness ==
    /\ CreateSucceeded
    /\ http.body.id = 2
    /\ http.request.lead_ids = <<3, 1>>
    /\ Cardinality(LinksOf(2)) = 2
    /\ genLog[1].body # genLog[2].body

-----------------------------------------------------------------------------
\* Properties of the customer follow-ups (SpecFollowup)

\* the follow-up request last answered, and what it was answered with
Responded == req.kind = "none" /\ http.endpoint = "agent_respond" /\ http.status # 404
LastPayload == http.request.payload
LastCampaignLead == http.request.cl
HasKeyword(keywords, text) ==
    \E k \in keywords : \E i \in 1..Len(text) :
        i + Len(k) - 1 <= Len(text) /\ Lower(SubSeq(text, i, i + Len(k) - 1)) = k

\* the goal a customer message carries: the requested goal if one is
\* supplied, else visit if the text has a visit keyword, else call if it has a
\* call keyword
CarriedGoal(payload) ==
    IF payload.requested_goal # NoneStr THEN payload.requested_goal
    ELSE IF HasKeyword(visit_keywords, payload.customer_message) THEN "visit"
    ELSE IF HasKeyword(call_keywords, payload.customer_message) THEN "call"
    ELSE "none"

NoGoalRequest(payload) ==
    /\ payload.requested_goal = NoneStr
    /\ ~HasKeyword(visit_keywords \cup call_keywords, payload.customer_message)

\* the result's message, else its answer, else the fixed default text
ExpectedReply(result) ==
    IF "message" \in result.keys /\ result.message # <<>> THEN result.message
    ELSE IF "answer" \in result.keys /\ result.answer # <<>> THEN result.answer
    ELSE T_DefaultReply

\* C8: a customer message without requested_goal and without visit or call
\* keyword, once answered, has appended exactly two conversation messages, the
\* customer's and then one agent message whose text is the agent result's
\* message, else its answer, else the default text, and whose metadata route
\* is the result's route; the returned intent and goal_outcome are 'none'.
C8_NoGoalFollowup ==
    (Responded /\ http.status = 200 /\ NoGoalRequest(LastPayload)) =>
        LET n == Len(saved.messages)
            result == agentState.response
        IN /\ Len(messages) = n + 2
           /\ SubSeq(messages, 1, n) = saved.messages
           /\ messages[n + 1].campaign_lead = LastCampaignLead
           /\ messages[n + 1].sender = "customer"
           /\ messages[n + 1].message = LastPayload.customer_message
           /\ messages[n + 2].campaign_lead = LastCampaignLead
           /\ messages[n + 2].sender = "agent"
           /\ messages[n + 2].message = ExpectedReply(result)
           /\ messages[n + 2].route = result.route
           /\ http.body.intent = "none"
           /\ http.body.goal_outcome = "none"

\* a no-goal follow-up answered with the default text, and one answered with
\* the result's answer
C8_Witness ==
    /\ Responded /\ http.status = 200 /\ NoGoalRequest(LastPayload)
    /\ Len(CustomerMessages) = 2
    /\ messages[Len(messages)].message = T_DefaultReply
    /\ \E k \in 1..Len(messages) : messages[k].route = "rag" /\ messages[k].message = <<"G","y","m">>

\* C9: between calls of handle_customer_message, every conversation is the
\* initial agent message followed by strictly alternating customer and agent
\* messages, so that there is one agent message more than customer messages.
C9_ConversationAlternates ==
    req.kind = "none" =>
        \A clId \in 1..Len(campaignLeads) :
            LET conv == Conversation(clId)
                count(sender) == Cardinality({k \in 1..Len(conv) : conv[k].sender = sender})
            IN /\ Len(conv) >= 1
               /\ \A k \in 1..Len(conv) :
                    conv[k].sender = IF k % 2 = 1 THEN "agent" ELSE "customer"
               /\ conv[Len(conv)].sender = "agent"
               /\ count("agent") = count("customer") + 1

\* a failed call was rolled back after a conversation took two follow-ups,
\* one answered by the agent and one by a goal confirmation
C9_Witness ==
    /\ req.kind = "none"
    /\ \E clId \in 1..Len(campaignLeads) :
        LET conv == Conversation(clId)
        IN /\ Len(conv) = 5
           /\ conv[3].route = "t2sql"
           /\ conv[5].route = "goal_confirmation"
    /\ \E clId \in 1..Len(campaignLeads) : checkpoint[ThreadOf(clId)].route # "unset"
                                            /\ Len(Conversation(clId)) = 1

\* C10: a customer message that carries a goal is never handed to the
\* lead-nurture agent; once handled, the CampaignLead has that goal as
\* goal_outcome, status 'goal_met' and the proposed schedule as
\* scheduled_datetime, the conversation ends with the customer's message and
\* a confirmation reply of the agent, and the goal is returned as goal_outcome.
C10_GoalConfirmed ==
    /\ req.kind = "agent_respond" =>
            CarriedGoal(FollowupRequest(req.text, req.goal, req.schedule)) = "none"
    /\ (Responded /\ CarriedGoal(LastPayload) # "none") =>
        LET goal == CarriedGoal(LastPayload)
            cl == campaignLeads[LastCampaignLead]
            n == Len(saved.messages)
        IN /\ http.status = 200
           /\ cl.goal_outcome = goal
           /\ cl.status = "goal_met"
           /\ cl.scheduled_datetime = LastPayload.proposed_schedule
           /\ Len(messages) = n + 2
           /\ SubSeq(messages, 1, n) = saved.messages
           /\ messages[n + 1].sender = "customer"
           /\ messages[n + 1].message = LastPayload.customer_message
           /\ messages[n + 2].campaign_lead = LastCampaignLead
           /\ messages[n + 2].sender = "agent"
           /\ messages[n + 2].route = "goal_confirmation"
           /\ messages[n + 2].message = http.body.reply
           /\ http.body.goal_outcome = goal
           /\ nodeLog = <<>>
           /\ agentPc = "idle"

\* a text with a call and a visit keyword was confirmed as a visit, after a
\* requested call had been confirmed for the same CampaignLead
C10_Witness ==
    /\ Responded
    /\ LastPayload.requested_goal = NoneStr
    /\ LastPayload.customer_message = M_CallTour
    /\ campaignLeads[LastCampaignLead].goal_outcome = "visit"
    /\ saved.campaignLeads[LastCampaignLead].goal_outcome = "call"

-----------------------------------------------------------------------------
\* Integrity of the campaign tables (SpecCreate)

\* C11: there is at most one CampaignLead for any (campaign, lead) pair, and
\* every CampaignLead refers to an existing campaign and lead and every
\* ConversationMessage to an existing CampaignLead, after any sequence of
\* create_campaign calls, calls that repeat a lead id included.
C11_UniqueLinksAndReferences ==
    /\ \A i, j \in 1..Len(campaignLeads) :
            (/\ campaignLeads[i].campaign = campaignLeads[j].campaign
             /\ campaignLeads[i].lead = campaignLeads[j].lead) => i = j
    /\ \A i \in 1..Len(campaignLeads) :
            /\ campaignLeads[i].campaign \in 1..Len(campaigns)
            /\ campaignLeads[i].lead \in LeadIds
    /\ \A k \in 1..Len(messages) :
            messages[k].campaign_lead \in 1..Len(campaignLeads)

\* a second campaign was created by a request that names lead 1 twice, for a
\* lead that the first campaign holds as well
C11_Witness ==
    /\ CreateSucceeded
    /\ http.request.lead_ids = <<1, 1>>
    /\ http.body.id = 2
    /\ \E i \in LinksOf(1) : campaignLeads[i].lead = 1
    /\ Cardinality(LinksOf(2)) = 1

-----------------------------------------------------------------------------
\* Failure of campaign creation (SpecCreate)

\* the causes of failure, read after the request: the ids of the request,
\* the generator's last call, the mail settings and the last send_mail call
NoLeadIds == http.request.lead_ids = <<>>
UnknownLeadId == \E i \in 1..Len(http.request.lead_ids) : http.request.lead_ids[i] \notin LeadIds
GenerationFailed == genLog # <<>> /\ genLog[Len(genLog)].raised
OverrideUnset == ~settings.override

\* C12: a create_campaign request that fails (no lead ids, an unknown lead
\* id, a generation error, CAMPAIGN_EMAIL_OVERRIDE unset, a failed send_mail
\* with DEBUG off) is answered 400, and a request answered 400 leaves the
\* campaigns, campaign leads and conversation messages as they were.
C12_AllOrNothing ==
    [][ http'.endpoint = "create_campaign" =>
            /\ NoLeadIds' => http'.status = 400
            /\ UnknownLeadId' => http'.status = 400
            /\ GenerationFailed' => http'.status = 400
            /\ (OverrideUnset' /\ ~NoLeadIds' /\ ~UnknownLeadId') => http'.status = 400
            /\ (/\ Len(outbox') > Len(outbox)
                /\ outbox'[Len(outbox')].failed
                /\ ~settings'.debug) => http'.status = 400
            /\ http'.status \in {200, 400}
            /\ http'.status = 400 =>
                    /\ campaigns' = campaigns
                    /\ campaignLeads' = campaignLeads
                    /\ messages' = messages
            /\ http'.status = 200 => Len(campaigns') = Len(campaigns) + 1 ]_vars

\* after a first campaign was stored, a request for two leads failed at the
\* second lead's mail, when the first lead's rows had been written
C12_Witness ==
    /\ http.endpoint = "create_campaign"
    /\ http.status = 400
    /\ http.detail = E_SendMail
    /\ Len(campaigns) = 1
    /\ Len(genLog) = 2
    /\ Len(outbox) = 3
    /\ ~outbox[2].failed
    /\ outbox[3].failed
    /\ outbox[2].campaign = 2
    /\ campaignLeads = saved.campaignLeads
    /\ Len(messages) = Len(campaignLeads)

-----------------------------------------------------------------------------
\* Properties of the brochure upload (SpecUpload)

Uploaded == http.endpoint = "upload_documents"
\* the store_upload calls of the request, in call order
StoreCalls == SelectSeq(uploadLog, LAMBDA e : e.op = "store_upload")
T_FailedToIngest == <<"Failed to ingest ">>

\* C13: upload_documents stores and then ingests the files in upload order;
\* the first call that raises ends the request with 400 'Failed to ingest
\* <file name>: ...' and no later file is touched; when no call raises, the
\* response has one entry per file, in upload order, with the document id,
\* project name, chunk count and collection name of that file.
C13_UploadInOrder ==
    Uploaded =>
        LET files == http.request.files
            first == Len(saved.brochures)
        IN /\ Len(StoreCalls) <= Len(files)
           /\ \A k \in 1..Len(StoreCalls) : StoreCalls[k].file = files[k].name
           /\ \A j \in 1..Len(uploadLog) :
                /\ uploadLog[j].raised => j = Len(uploadLog)
                /\ uploadLog[j].op = "ingest" =>
                        /\ j > 1
                        /\ uploadLog[j - 1].op = "store_upload"
                        /\ uploadLog[j - 1].file = uploadLog[j].file
                /\ (uploadLog[j].op = "store_upload" /\ j > 1) => uploadLog[j - 1].op = "ingest"
           /\ IF uploadLog # <<>> /\ uploadLog[Len(uploadLog)].raised
              THEN /\ http.status = 400
                   /\ StartsWith(T_FailedToIngest \o uploadLog[Len(uploadLog)].file \o <<": ">>,
                                 http.detail)
              ELSE /\ http.status = 200
                   /\ Len(uploadLog) = 2 * Len(files)
                   /\ Len(http.body) = Len(files)
                   /\ \A i \in 1..Len(files) :
                        LET entry == http.body[i]
                            chunks == SelectSeq(vectorStore,
                                                LAMBDA c : c.document_id = entry.document_id)
                        IN /\ entry.document_id = first + i
                           /\ brochures[entry.document_id].file = files[i].name
                           /\ entry.project_name = brochures[entry.document_id].project_name
                           /\ entry.chunks_indexed = Len(chunks)
                           /\ \A k \in 1..Len(chunks) : chunks[k].collection = entry.collection_name
                           /\ \E k \in 1..Len(ingestionLogs) :
                                /\ ingestionLogs[k].document = entry.document_id
                                /\ ingestionLogs[k].chunks_indexed = entry.chunks_indexed

\* of two uploaded files the first was stored and ingested and the second
\* was stored and then failed in ingest
C13_Witness ==
    /\ Uploaded
    /\ http.status = 400
    /\ Len(http.request.files) = 2
    /\ Len(uploadLog) = 4
    /\ uploadLog[4].op = "ingest"
    /\ uploadLog[4].raised
    /\ Len(brochures) = 2
    /\ brochures[1].last_indexed_at # NoneInt

\* the ingest calls of the request, and the log rows the request created
IngestCalls == SelectSeq(uploadLog, LAMBDA e : e.op = "ingest")
NewLogs == SubSeq(ingestionLogs, Len(saved.ingestionLogs) + 1, Len(ingestionLogs))
EndsWith(suffix, s) ==
    Len(s) >= Len(suffix) /\ SubSeq(s, Len(s) - Len(suffix) + 1, Len(s)) = suffix

-----------------------------------------------------------------------------
\* agent_query's reply

E_NoReply == "Unable to generate agent response."

\* C15: when agent.run has returned a result, agent_query answers 500 'Unable
\* to generate agent response.' exactly when the result has neither a
\* non-empty message nor a non-empty answer; otherwise the reply is the message
\* if it is non-empty and the answer if not, and route, sql, rows and sources
\* of the response are those of the result.
C15_QueryReplyFromResult ==
    [][ (req.kind = "agent_query" /\ agentPc = "end" /\ http'.endpoint = "agent_query") =>
          LET result == agentState.response
              message == GetText(result, "message")
              answer == GetText(result, "answer")
              hasMessage == message # NoneText /\ Len(message) > 0
              hasAnswer == answer # NoneText /\ Len(answer) > 0
          IN /\ (http'.status = 500 /\ http'.detail = E_NoReply) <=> (~hasMessage /\ ~hasAnswer)
             /\ (hasMessage \/ hasAnswer) =>
                  /\ http'.status = 200
                  /\ http'.body.reply = (IF hasMessage THEN message ELSE answer)
                  /\ http'.body.route = result.route
                  /\ http'.body.sql = result.sql
                  /\ http'.body.rows = result.rows
                  /\ http'.body.sources = result.sources ]_vars

\* a document answer that strips to nothing was refused, after a query on
\* the same thread had been answered from SQL
C15_Witness ==
    /\ http.endpoint = "agent_query"
    /\ http.status = 500
    /\ http.detail = E_NoReply
    /\ nodeLog = <<"router", "rag">>
    /\ agentState.response.answer = <<>>
    /\ svc.last_sql # NoneStr

-----------------------------------------------------------------------------
\* The formatted SQL answer

RECURSIVE Lines(_)
\* the lines of a text, split at newlines
Lines(s) ==
    IF \A i \in 1..Len(s) : s[i] # "\n" THEN <<s>>
    ELSE LET k == CHOOSE i \in 1..Len(s) : s[i] = "\n" /\ \A j \in 1..(i - 1) : s[j] # "\n"
         IN <<SubSeq(s, 1, k - 1)>> \o Lines(SubSeq(s, k + 1, Len(s)))

\* "Showing first 5 of <n> records."
ShowingLine(n) ==
    <<"S","h","o","w","i","n","g"," ","f","i","r","s","t"," ","5"," ","o","f"," ">>
    \o IntToStr(n) \o <<" ","r","e","c","o","r","d","s",".">>

\* C19: format returns a non-empty text for every question and row list: with
\* no rows "I could not find results for '<question>'."; with one row of one
\* column a single line starting 'The <column, underscores as spaces> is
\* <value>' and ending in a period; otherwise one bullet line for each of the
\* first five rows at most, followed by the line 'Showing first 5 of N
\* records.' exactly when there are more than five rows.
C19_FormatShape ==
    \A k \in 1..Len(formatLog) :
        LET e == formatLog[k]
            n == Len(e.rows)
            shown == IF n < 5 THEN n ELSE 5
            lines == Lines(e.message)
        IN /\ Len(e.message) > 0
           /\ n = 0 =>
                e.message = <<"I"," ","c","o","u","l","d"," ","n","o","t"," ","f","i","n","d"," ",
                              "r","e","s","u","l","t","s"," ","f","o","r"," ","'">>
                            \o e.question \o <<"'",".">>
           /\ (n = 1 /\ Len(e.rows[1]) = 1) =>
                /\ Len(lines) = 1
                /\ StartsWith(<<"T","h","e"," ">> \o ReplaceUnderscore(e.rows[1][1][1])
                              \o <<" ","i","s"," ">> \o IntToStr(e.rows[1][1][2]), e.message)
                /\ e.message[Len(e.message)] = "."
           /\ (n > 0 /\ ~(n = 1 /\ Len(e.rows[1]) = 1)) =>
                /\ Len(lines) = shown + (IF n > 5 THEN 1 ELSE 0)
                /\ \A i \in 1..shown : StartsWith(T_Bullet, lines[i])
                /\ (\E i \in 1..Len(lines) : lines[i] = ShowingLine(n)) <=> n > 5
                /\ n > 5 => lines[Len(lines)] = ShowingLine(n)

\* six rows were formatted: five bullet lines and the line announcing the cut
C19_Witness ==
    \E k \in 1..Len(formatLog) :
        /\ Len(formatLog[k].rows) = 6
        /\ Len(Lines(formatLog[k].message)) = 6

-----------------------------------------------------------------------------
\* Text-to-SQL results

\* the SQL executions of a call, over both attempts, in order
Executed(c) == c.behaviour.first.runs \o c.behaviour.runs

\* the rows execute() keeps of one execution: the "results" metadata, the
\* UI component's rows when the metadata has none, nothing when neither is a list
RowsKept(run) ==
    IF run.meta.isList /\ run.meta.rows # <<>> THEN run.meta.rows
    ELSE IF run.ui.isList THEN run.ui.rows
    ELSE <<>>

\* C18: in a sequence of answer() calls that do not overlap, the result of a
\* call holds nothing recorded by an earlier call: when the call executed no
\* SQL, sql is '/* SQL not generated */' and rows is empty; when it executed
\* SQL, sql and rows are those of its last execution; explanation is never
\* empty: the streamed text, else the last tool message of the call, else
\* 'Assistant response unavailable.'.
C18_NothingFromEarlierCalls ==
    \A k \in 1..Len(calls) :
        LET c == calls[k]
            runs == Executed(c)
            last == runs[Len(runs)]
            toolMessage == IF runs = <<>> THEN "" ELSE last.message
        IN c.pc = "returned" =>
            /\ runs = <<>> =>
                /\ c.result.sql = "/* SQL not generated */"
                /\ c.result.rows = <<>>
            /\ runs # <<>> =>
                /\ c.result.sql = last.sql
                /\ c.result.rows = RowsKept(last)
            /\ c.result.explanation # ""
            /\ c.result.explanation =
                    (IF c.behaviour.streamed # "" THEN c.behaviour.streamed
                     ELSE IF toolMessage # "" THEN toolMessage
                     ELSE "Assistant response unavailable.")

\* a call that executed no SQL and streamed nothing returned right after a
\* call that had left SQL, rows and a tool message on the service
C18_Witness ==
    /\ Len(calls) = 2
    /\ calls[2].pc = "returned"
    /\ Executed(calls[2]) = <<>>
    /\ calls[2].behaviour.streamed = ""
    /\ calls[2].before.last_sql = "SELECT COUNT(*) AS lead_count FROM crm_lead"
    /\ calls[2].before.last_rows = OneCell
    /\ calls[2].before.last_message = "1 row"
    /\ calls[2].result.sql = "/* SQL not generated */"

\* C16: when answer() calls overlap on the shared service, each call returns
\* the SQL text and the rows executed for its own question (those of its own
\* last execution, or the default text and no rows when it executed none),
\* never what another call recorded.
C16_OwnSqlAndRows ==
    \A k \in 1..Len(calls) :
        LET c == calls[k]
            runs == c.behaviour.runs
        IN c.pc = "returned" =>
            /\ c.result.sql = (IF runs = <<>> THEN "/* SQL not generated */" ELSE runs[Len(runs)].sql)
            /\ c.result.rows = (IF runs = <<>> THEN <<>> ELSE RowsKept(runs[Len(runs)]))

-----------------------------------------------------------------------------
\* Runs on a reused thread

\* C20: the response a run returns is the one produced during that run for
\* that query: its route is the route decided in this run for the caller's
\* query, and its content is what the answer node of this run built from this
\* run's service call; nothing of it is left from the checkpoint of an earlier
\* run on the thread.
C20_ResponseOfThisRun ==
    RunReturned =>
        LET response == agentState.response
        IN /\ Len(decideLog) = 1
           /\ decideLog[1].query = req.text
           /\ response.route = decideLog[1].result
           /\ response.route = "t2sql" =>
                /\ Len(t2sqlLog) = 1
                /\ t2sqlLog[1].question = req.text
                /\ response.keys = {"route", "sql", "rows", "explanation", "message"}
                /\ response.sql = t2sqlLog[1].result.sql
                /\ response.rows = t2sqlLog[1].result.rows
                /\ response.explanation = t2sqlLog[1].result.explanation
                /\ response.answer = NoneText
                /\ response.sources = <<>>
           /\ response.route = "rag" =>
                /\ Len(ragLog) = 1
                /\ ragLog[1].query = req.text
                /\ response.keys = {"route", "answer", "sources"}
                /\ IsStripOf(response.answer, ragLog[1].llm.content)
                /\ Len(response.sources) = Len(ragLog[1].docs)
                /\ response.sql = NoneStr
                /\ response.rows = <<>>
                /\ response.message = NoneText

\* a document answer was returned on the thread on which an earlier run had
\* returned, and checkpointed, an SQL answer
C20_Witness ==
    /\ RunReturned
    /\ agentState.response.route = "rag"
    /\ ragLog # <<>>
    /\ svc.last_sql = "/* SQL not generated */"

-----------------------------------------------------------------------------
\* One user's campaigns and another user's requests

\* the user whose request the step just taken belongs to
Actor == IF req.kind # "none" THEN req.user ELSE http.user

\* the last response, if it is not a 404, answers a request addressed to a
\* campaign, or to a campaign lead of a campaign, that the requesting user created
AnsweredOwnOnly ==
    /\ (http.endpoint \in {"campaign_dashboard", "fetch_conversation"} /\ http.status # 404) =>
            /\ http.request.campaign \in 1..Len(campaigns)
            /\ campaigns[http.request.campaign].created_by = http.user
    /\ (http.endpoint \in {"agent_respond", "agent_query"} /\ http.status # 404) =>
            /\ http.request.cl \in 1..Len(campaignLeads)
            /\ campaigns[campaignLeads[http.request.cl].campaign].created_by = http.user

\* the agent run in progress, if any, is for a campaign lead of a campaign
\* that the requesting user created
RunsForOwnOnly ==
    req.kind # "none" =>
        /\ req.cl \in 1..Len(campaignLeads)
        /\ campaigns[campaignLeads[req.cl].campaign].created_by = req.user

\* what agent_respond replies to user on a campaign lead when the customer
\* asks for the number of campaigns, the router answers T2SQL and the Vanna
\* agent runs the count
CountReply(user, clId) ==
    IF OwnedCampaignLead(user, clId)
    THEN [status |-> 200,
          reply |-> Format(Q_HowManyCampaigns, RecordExecute(ResetState, CampaignCountRun).last_rows)]
    ELSE [status |-> 404, reply |-> <<>>]

\* what the campaign endpoints return to user, for every address
EndpointView(user) ==
    [list |-> ListCampaignsResponse(user),
     dashboard |-> [c \in 1..MaxCampaigns |-> DashboardResponse(user, c)],
     conversation |-> [c \in 1..MaxCampaigns |-> [l \in ThreadIds |-> ConversationResponse(user, c, l)]],
     respond |-> [l \in ThreadIds |-> CountReply(user, l)]]

\* C14: campaign_dashboard, fetch_conversation, agent_respond and agent_query
\* addressed to a campaign or campaign lead of a campaign the user did not
\* create answer 404 without invoking the agent and without changing any
\* record; list_campaigns returns only campaigns the user created; and no
\* step taken for one user changes what the campaign endpoints return to
\* another user.
C14_TenantIsolation ==
    [][ /\ AnsweredOwnOnly'
        /\ RunsForOwnOnly'
        /\ http'.status = 404 => UNCHANGED <<dbVars, agentVars>>
        /\ http'.endpoint = "list_campaigns" =>
            \A k \in 1..Len(http'.body) : campaigns[http'.body[k].id].created_by = http'.user
        /\ \A u \in Users : u # Actor' => EndpointView(u)' = EndpointView(u) ]_vars

-----------------------------------------------------------------------------
\* The mail of a campaign lead (SpecCreate)

\* the _dispatch_email calls of the request: one for every lead whose message
\* was generated
DispatchCalls == Cardinality({k \in 1..Len(genLog) : ~genLog[k].raised})
Recipients(call) == {call.recipient_list[i] : i \in 1..Len(call.recipient_list)}
LeadAddresses == {LeadTable[i].email : i \in 1..Len(LeadTable)}

\* C21: a create_campaign request that reaches _dispatch_email: with
\* CAMPAIGN_EMAIL_OVERRIDE unset the first call raises ImproperlyConfigured and
\* nothing is sent; with the SMTP user or password missing nothing is sent,
\* no error comes from the mail and the creation goes on to the other leads;
\* with both set every call sends one mail, a failed send with DEBUG on is
\* followed by the remaining leads and the request succeeds, a failed send
\* with DEBUG off is the last thing the request does and is answered 400;
\* every mail has the override address as its only recipient, never a lead's.
C21_MailDispatch ==
    [][ (http'.endpoint = "create_campaign" /\ DispatchCalls' > 0) =>
            LET sent == SubSeq(outbox', Len(outbox) + 1, Len(outbox'))
                wanted == Cardinality({http'.request.lead_ids[i] :
                                            i \in 1..Len(http'.request.lead_ids)})
                Continued == /\ http'.detail \notin {E_NoOverride, E_SendMail}
                             /\ http'.status = 200 <=> ~GenerationFailed'
                             /\ ~GenerationFailed' => DispatchCalls' = wanted
            IN /\ Len(outbox') >= Len(outbox)
               /\ SubSeq(outbox', 1, Len(outbox)) = outbox
               /\ ~settings.override =>
                    /\ sent = <<>>
                    /\ DispatchCalls' = 1
                    /\ http'.status = 400
                    /\ http'.detail = E_NoOverride
               /\ (settings.override /\ ~settings.credentials) =>
                    /\ sent = <<>>
                    /\ Continued
               /\ (settings.override /\ settings.credentials) =>
                    /\ Len(sent) = DispatchCalls'
                    /\ \A k \in 1..Len(sent) : sent[k].lead = genLog'[k].lead
                    /\ settings.debug => Continued
                    /\ ~settings.debug =>
                        /\ \A k \in 1..Len(sent) : sent[k].failed => k = Len(sent)
                        /\ sent[Len(sent)].failed =>
                                http'.status = 400 /\ http'.detail = E_SendMail
                        /\ ~sent[Len(sent)].failed => Continued
               /\ \A k \in 1..Len(sent) :
                    /\ sent[k].recipient_list = <<OverrideAddress>>
                    /\ Recipients(sent[k]) \cap LeadAddresses = {} ]_vars

\* with DEBUG on, the mail of a campaign's first lead failed, the second
\* lead's mail was sent all the same, and the campaign was created
C21_Witness ==
    /\ CreateSucceeded
    /\ settings.debug
    /\ Len(outbox) = 2
    /\ outbox[1].failed
    /\ ~outbox[2].failed
    /\ outbox[1].campaign = outbox[2].campaign
    /\ outbox[1].lead # outbox[2].lead
    /\ Cardinality(LinksOf(http.body.id)) = 2

-----------------------------------------------------------------------------
\* A follow-up whose agent run raises (SpecFollowup)

\* the fields of a CampaignLead that handle_customer_message writes before
\* it calls the agent, and the one it writes after
TouchedFields(cl) ==
    <<cl.status, cl.last_customer_message_at, cl.last_agent_message_at>>

\* C22: handle_customer_message stores the customer's message and marks the
\* CampaignLead responded before it calls the agent; if the agent raises, the
\* request ends with the conversation messages, and the status,
\* last_customer_message_at and last_agent_message_at of every CampaignLead,
\* as they were when the request came in.
C22_RaisedRunUndone ==
    [][ /\ (req.kind = "none" /\ req'.kind = "agent_respond") =>
                /\ saved'.messages = messages
                /\ saved'.campaignLeads = campaignLeads
                /\ messages' = Append(messages, messages'[Len(messages')])
                /\ messages'[Len(messages')].sender = "customer"
                /\ messages'[Len(messages')].message = req'.text
                /\ campaignLeads'[req'.cl].last_customer_message_at = now
        /\ (req.kind = "agent_respond" /\ req'.kind = "agent_respond") =>
                UNCHANGED <<saved, dbVars>>
        /\ (req.kind = "agent_respond" /\ agentPc = "raised" /\ req'.kind = "none") =>
                /\ http'.endpoint = "agent_respond"
                /\ http'.status = 500
                /\ messages' = saved.messages
                /\ ~\E k \in 1..Len(messages') :
                        /\ messages'[k].sender = "customer"
                        /\ k > Len(saved.messages)
                /\ Len(campaignLeads') = Len(saved.campaignLeads)
                /\ \A i \in 1..Len(campaignLeads') :
                        TouchedFields(campaignLeads'[i]) = TouchedFields(saved.campaignLeads[i])
                /\ campaignLeads' = saved.campaignLeads
                /\ campaigns' = campaigns ]_vars

\* the agent raised on a message for a CampaignLead whose goal had been met
\* by an earlier message: the time of that earlier message is back in place
C22_Witness ==
    /\ Responded
    /\ http.status = 500
    /\ agentState.query = LastPayload.customer_message
    /\ campaignLeads[LastCampaignLead].status = "goal_met"
    /\ campaignLeads[LastCampaignLead].last_customer_message_at # NoneInt
    /\ campaignLeads[LastCampaignLead].last_customer_message_at < now - 1
    /\ Len(Conversation(LastCampaignLead)) = 3
    /\ \E i \in 1..Len(campaignLeads) : campaignLeads[i].status = "sent"

-----------------------------------------------------------------------------
\* The status of a campaign lead over its life (SpecLifecycle)

\* the CampaignLead rows as the operations leave them: while
\* handle_customer_message is inside its transaction, the rows as they were
\* when it was entered
CommittedLeads == IF req.kind = "agent_respond" THEN saved.campaignLeads ELSE campaignLeads

\* MessageStatus in the order pending, sent, responded, goal_met
StatusRank(status) ==
    CASE status = "pending" -> 0
      [] status = "sent" -> 1
      [] status = "responded" -> 2
      [] status = "goal_met" -> 3

\* C23: create_campaign and handle_customer_message never take the status of
\* a CampaignLead backwards along sent, responded, goal_met: a lead that is
\* 'goal_met' stays so whatever message comes later, and a goal_outcome of
\* 'call' or 'visit' never becomes 'none' again; a new CampaignLead starts
\* as 'sent'.
C23_StatusMovesForward ==
    [][ /\ Len(CommittedLeads') >= Len(CommittedLeads)
        /\ \A i \in 1..Len(CommittedLeads) :
            LET old == CommittedLeads[i]
                new == CommittedLeads'[i]
            IN /\ StatusRank(new.status) >= StatusRank(old.status)
               /\ old.status = "goal_met" => new.status = "goal_met"
               /\ old.goal_outcome \in {"call", "visit"} =>
                        new.goal_outcome \in {"call", "visit"}
        /\ \A i \in (Len(CommittedLeads) + 1)..Len(CommittedLeads') :
                CommittedLeads'[i].status = "sent" ]_vars

\* a lead asked a question, then requested a call, then sent a message with
\* requested_goal 'none', which the agent answered: it is still 'goal_met'
C23_Witness ==
    /\ Responded
    /\ http.status = 200
    /\ LastPayload.requested_goal = "none"
    /\ campaignLeads[LastCampaignLead].status = "goal_met"
    /\ campaignLeads[LastCampaignLead].goal_outcome = "call"
    /\ Len(Conversation(LastCampaignLead)) = 7
    /\ Conversation(LastCampaignLead)[2].message = M_Amenities
    /\ Conversation(LastCampaignLead)[4].message = M_Recall

\* C24: a CampaignLead has status 'goal_met' exactly when its goal_outcome
\* is 'call' or 'visit', in every state that create_campaign and
\* handle_customer_message reach, so the metrics of every campaign's
\* dashboard satisfy goals_completed <= leads_responded <= total_leads.
C24_GoalMetIffOutcome ==
    /\ \A i \in 1..Len(campaignLeads) :
            campaignLeads[i].status = "goal_met" <=>
                campaignLeads[i].goal_outcome \in {"call", "visit"}
    /\ \A i \in 1..Len(CommittedLeads) :
            CommittedLeads[i].status = "goal_met" <=>
                CommittedLeads[i].goal_outcome \in {"call", "visit"}
    /\ \A campaignId \in 1..Len(campaigns) :
            LET metrics == Metrics(campaignId)
            IN /\ metrics.goals_completed <= metrics.leads_responded
               /\ metrics.leads_responded <= metrics.total_leads

\* a campaign of two leads while the agent is answering: one lead's call was
\* confirmed, the other has written and has no goal
C24_Witness ==
    /\ req.kind = "agent_respond"
    /\ \E campaignId \in 1..Len(campaigns) :
        /\ Metrics(campaignId).total_leads = 2
        /\ Metrics(campaignId).leads_responded = 2
        /\ Metrics(campaignId).goals_completed = 1
    /\ campaignLeads[req.cl].status = "responded"
    /\ saved.campaignLeads[req.cl].status = "sent"

-----------------------------------------------------------------------------
\* Properties of retrieval (SpecRetrieval)

\* the stages of get_documents in the order of the claim, for a project name
\* and a query; a search whose prompt is empty is not made
StageOrder(project_name, query) ==
    LET withQuery(side) == IF query # <<>> THEN <<Stage(side, "query")>> ELSE <<>>
    IN IF Named(project_name)
       THEN withQuery("own")
            \o <<Stage("own", "highlights"), Stage("own", "pricing"), Stage("own", "generic")>>
            \o withQuery("default")
            \o <<Stage("default", "generic"), Stage("default", "raw"), Stage("own", "raw")>>
       ELSE withQuery("own") \o <<Stage("own", "generic"), Stage("own", "raw")>>

\* C25: get_documents consults its stages in the fixed order (the project's
\* collection searched with the query, the two project prompts and the
\* generic prompt; for a named project the default collection searched with
\* the query and the generic prompt, then its raw documents of that project;
\* last the raw documents of the project's collection), stops at the first
\* stage that yields documents and returns them, returns nothing only when
\* every stage yielded nothing, and never returns more than limit documents.
C25_StagesInOrder ==
    retrievalLog.called =>
        LET order == StageOrder(retrievalLog.project_name, retrievalLog.query)
            consulted == retrievalLog.consulted
            n == Len(consulted)
        IN /\ n >= 1
           /\ n <= Len(order)
           /\ \A k \in 1..n : consulted[k].stage = order[k]
           /\ \A k \in 1..(n - 1) : consulted[k].docs = <<>>
           /\ retrievalLog.documents = consulted[n].docs
           /\ retrievalLog.documents = <<>> => n = Len(order)
           /\ Len(retrievalLog.documents) <= retrievalLog.limit
           /\ \A k \in 1..n : \A i \in 1..Len(consulted[k].docs) :
                LET doc == consulted[k].docs[i]
                IN /\ doc.collection = IF consulted[k].stage.store = "default" THEN T_projects
                                       ELSE RagCollectionName(retrievalLog.project_name)
                   /\ (consulted[k].stage.prompt = "raw" /\ Named(retrievalLog.project_name)) =>
                            doc.project_name = retrievalLog.project_name

\* a question about Altura found nothing in any search of either collection,
\* and the raw documents of Altura's collection, cut to the limit, came back
C25_Witness ==
    /\ retrievalLog.called
    /\ retrievalLog.project_name = P_Altura
    /\ retrievalLog.query = M_Amenities
    /\ retrievalLog.limit = 1
    /\ Len(retrievalLog.consulted) = 8
    /\ Len(retrievalLog.documents) = 1
    /\ Len(Collection(vectorStore, RagCollectionName(P_Altura))) >= 2

\* the brochure's project is the project asked for; None asks for the
\* brochures without a project
SameProject(brochure_project, project_name) ==
    \/ brochure_project = project_name
    \/ brochure_project = <<>> /\ project_name = NoneText

\* an ingest of a brochure of the project ended well with at least one chunk
IndexedFor(project_name) ==
    \E k \in 1..Len(ingestionLogs) :
        /\ ingestionLogs[k].status = "completed"
        /\ ingestionLogs[k].chunks_indexed >= 1
        /\ SameProject(brochures[ingestionLogs[k].document].project_name, project_name)

\* C26: ingestion and retrieval name the collection of every project alike,
\* the empty project name included, and once a brochure of a project was
\* ingested with at least one chunk, every get_documents call for that
\* project returns at least one document, whatever the query and whatever
\* the searches find.
C26_IngestedIsRetrievable ==
    /\ \A p \in {ProjectChoices[k] : k \in 1..Len(ProjectChoices)} \cup RetrievalProjects :
            CollectionName(p) = RagCollectionName(p)
    /\ [][ (/\ retrievalLog' # retrievalLog
            /\ IndexedFor(retrievalLog'.project_name)) =>
                /\ retrievalLog'.called
                /\ Len(retrievalLog'.documents) >= 1
                /\ Len(retrievalLog'.documents) <= retrievalLog'.limit ]_vars

\* documents for 'DLF West Park', asked without a query, came from the raw
\* documents of its collection after no search had found anything
C26_Witness ==
    /\ retrievalLog.called
    /\ retrievalLog.project_name = P_DlfWestPark
    /\ retrievalLog.query = <<>>
    /\ IndexedFor(P_DlfWestPark)
    /\ Len(retrievalLog.consulted) = 6
    /\ retrievalLog.consulted[6].stage = Stage("own", "raw")
    /\ retrievalLog.documents # <<>>
    /\ retrievalLog.documents[1].project_name = P_DlfWestPark

-----------------------------------------------------------------------------
\* Properties of ingest called again (SpecReingest)

\* the chunks the vector store holds for a document, the ingestion logs of a
\* document, and the documents a step wrote a log for
ChunksOfDocument(store, documentId) ==
    SelectSeq(store, LAMBDA c : c.document_id = documentId)
LogsOfDocument(logs, documentId) ==
    SelectSeq(logs, LAMBDA l : l.document = documentId)
Ingested(documentId) ==
    Len(LogsOfDocument(ingestionLogs', documentId)) > Len(LogsOfDocument(ingestionLogs, documentId))

\* C27: a brochure whose latest ingest ended well has, in the collection of
\* its project, exactly the chunks of that ingest: as many as it indexed,
\* chunk_index 0..n-1 each once, each with the brochure's document id,
\* project name and source, and none in another collection; and an ingest
\* leaves the chunks of every other document as they were.
C27_LatestChunksOnly ==
    /\ [](\A documentId \in 1..Len(brochures) :
            LET logs == LogsOfDocument(ingestionLogs, documentId)
                chunks == ChunksOfDocument(vectorStore, documentId)
            IN (logs # <<>> /\ logs[Len(logs)].status = "completed") =>
                /\ Len(chunks) = logs[Len(logs)].chunks_indexed
                /\ \A i \in 1..Len(chunks) :
                    /\ chunks[i].chunk_index = i - 1
                    /\ chunks[i].project_name = brochures[documentId].project_name
                    /\ chunks[i].source = brochures[documentId].file
                    /\ chunks[i].collection = CollectionName(brochures[documentId].project_name))
    /\ [][ \A documentId \in 1..Len(brochures) :
            ~Ingested(documentId) =>
                ChunksOfDocument(vectorStore', documentId)
                    = ChunksOfDocument(vectorStore, documentId) ]_vars

\* a brochure ingested three times, with two chunks, then one, then two,
\* in a collection that holds the two chunks of another brochure
C27_Witness ==
    \E documentId, other \in 1..Len(brochures) :
        LET logs == LogsOfDocument(ingestionLogs, documentId)
        IN /\ other # documentId
           /\ Len(logs) = 3
           /\ \A k \in 1..3 : logs[k].status = "completed"
           /\ logs[1].chunks_indexed = 2
           /\ logs[2].chunks_indexed = 1
           /\ logs[3].chunks_indexed = 2
           /\ brochures[other].project_name = brochures[documentId].project_name
           /\ Len(ChunksOfDocument(vectorStore, other)) = 2

\* C28: an ingest that fails leaves every chunk that was indexed for the
\* brochure in the vector store, so that a brochure that had chunks still
\* has them.
C28_FailedIngestKeepsChunks ==
    [][ \A documentId \in 1..Len(brochures) :
            LET logs == LogsOfDocument(ingestionLogs', documentId)
                before == ChunksOfDocument(vectorStore, documentId)
                after == ChunksOfDocument(vectorStore', documentId)
            IN (Ingested(documentId) /\ logs[Len(logs)].status = "failed") =>
                /\ \A i \in 1..Len(before) : \E j \in 1..Len(after) : after[j] = before[i]
                /\ before # <<>> => after # <<>> ]_vars

====
